---- MODULE Spec2Model ----
(***************************************************************************)
(* A model of the two task pools of package thread_pool:                   *)
(*   - DynamicThreadPool (dynamic_thread_pool.go): one goroutine per task, *)
(*     bounded by one semaphore channel per class;                         *)
(*   - StaticThreadPool (static_thread_pool.go): a fixed set of worker     *)
(*     loops, the first 10% of which serve the priority channel only.      *)
(* Go channels are records [buf, cap, closed]; a goroutine is a program    *)
(* counter; a Go panic ends the process and is recorded in a fault field.  *)
(***************************************************************************)
EXTENDS Integers, Sequences, FiniteSets, TLC

\* ------------------------------------------------------------------ bounds

\* Number of distinct tasks (one Schedule call each) offered to a pool.
MaxTasks == 3

\* Number of Stop() calls made on a pool (concurrently or one after another).
MaxStops == 2

\* Largest argument handed to the constructors when they are checked alone.
MaxArg == 10

\* Start is computed for every worker count up to this one, and for LargeCounts.
MaxStartCount == 120

\* Number of calls made on a CustomTimer.
MaxCalls == 5

\* The clock stops at this number of ticks.
MaxTime == 6

\* Longest duration given to a CustomTimer, in ticks.
MaxDuration == 2

\* Number of Write calls made on an AsyncWriter.
MaxWrites == 3

Tasks == 1..MaxTasks

Durations == 1..MaxDuration

Writes == 1..MaxWrites

\* The bufferSize arguments given to NewAsyncWriter.
WriterSizes == {0, 1, 2}

Stoppers == 1..MaxStops

\* The (maxPriorityWorkers, maxNormalWorkers) pairs the dynamic pool runs with.
DynamicCeilings == {<<1, 1>>, <<2, 1>>, <<1, 2>>}

\* The worker counts the static pool runs with: 10 is the least count with a
\* priority-only worker (TestPrioritySchedule), 1 and 2 have none.
StaticCounts == {1, 2, 10}

\* Worker counts around the least one whose tenfold exceeds 32 bits
\* (429496730 * 10 = 2^32 + 4), and the largest count below 2^31.
LargeCounts == {429496729, 429496730, 429496739, 858993459, 2147483647}

\* A uint32 is kept as two 16-bit limbs [hi, lo], value hi * 2^16 + lo, so that
\* its arithmetic wraps at 2^32 as in the program.
Limb == 65536

\* The uint32 of a number 0 <= n < 2^31.
ToU32(n) == [hi |-> n \div Limb, lo |-> n % Limb]

\* ^uint32(0), the all-ones word.
U32AllOnes == [hi |-> Limb - 1, lo |-> Limb - 1]

\* x + y in uint32.
U32Add(x, y) ==
    LET lo == x.lo + y.lo
        hi == x.hi + y.hi + (lo \div Limb)
    IN  [hi |-> hi % Limb, lo |-> lo % Limb]

\* x * k in uint32, for a small factor k.
U32Mul(x, k) ==
    LET lo == x.lo * k
        hi == x.hi * k + (lo \div Limb)
    IN  [hi |-> hi % Limb, lo |-> lo % Limb]

\* The number a uint32 below 2^31 stands for.
U32Val(x) == x.hi * Limb + x.lo

\* x / d in uint32 (d >= 2), as a number.
U32Div(x, d) ==
    (x.hi \div d) * Limb + (((x.hi % d) * Limb + x.lo) \div d)

\* The nil pointer (a record, so that it compares with a pool).
Nil == [nil |-> TRUE]

NoFault == "none"

\* ---------------------------------------------------------------- channels

\* make(chan T, cap). sendq: the values of the senders parked in a select on
\* the full channel, in the order in which they parked.
MakeChan(cap) == [buf |-> <<>>, cap |-> cap, closed |-> FALSE, sendq |-> <<>>]

\* ch <- x can proceed: there is room, or the channel is closed (and the
\* send then panics).
SendReady(ch) == ch.closed \/ Len(ch.buf) < ch.cap

\* A send that never panics.
SendPanics_Never(ch) == FALSE

\* ch <- x panics.
SendPanics(ch) == ch.closed

\* A send that loses its value.
Send_Drop(ch, x) == ch

\* The channel after ch <- x on an open channel with room.
Send(ch, x) == [ch EXCEPT !.buf = Append(@, x)]

\* <-ch can proceed: a buffered value, or the channel is closed.
RecvReady(ch) == Len(ch.buf) > 0 \/ ch.closed

\* <-ch yields a real value (ok = true) rather than the closed channel's zero.
RecvOk(ch) == Len(ch.buf) > 0

\* A receive that leaves the value in the channel.
Recv_Keep(ch) == ch

\* A receive that takes the value sent last.
Recv_Last(ch) ==
    IF Len(ch.buf) = 0 THEN ch
    ELSE [ch EXCEPT !.buf = SubSeq(@, 1, Len(@) - 1)]

\* The channel after <-ch: the head of the buffer is taken, and the value of the
\* first parked sender, if any, moves into the buffer.
Recv(ch) ==
    IF Len(ch.buf) = 0 THEN ch
    ELSE IF Len(ch.sendq) = 0 THEN [ch EXCEPT !.buf = Tail(@)]
    ELSE [ch EXCEPT !.buf = Append(Tail(@), Head(ch.sendq)), !.sendq = Tail(@)]

\* The parked sender that <-ch wakes: its send has completed.
Woken(ch) == IF Len(ch.buf) > 0 /\ Len(ch.sendq) > 0 THEN {Head(ch.sendq)} ELSE {}

\* close(ch) on an open channel.
Close(ch) == [ch EXCEPT !.closed = TRUE]

\* ------------------------------------------------------------ constructors

\* NewDynamicThreadPool without the check of lines 40-43.
NewDynamicThreadPool_NoNormalCheck(maxPriorityWorkers, maxNormalWorkers) ==
    IF maxPriorityWorkers = 0 THEN Nil
    ELSE [maxPriorityWorkers |-> maxPriorityWorkers,
          maxNormalWorkers   |-> maxNormalWorkers,
          priorityCh  |-> MakeChan(U32Val(U32Mul(ToU32(maxPriorityWorkers), 2))),
          normalCh    |-> MakeChan(U32Val(U32Mul(ToU32(maxNormalWorkers), 10))),
          closeCh     |-> MakeChan(0),
          wg          |-> 0,
          prioritySem |-> MakeChan(maxPriorityWorkers),
          normalSem   |-> MakeChan(maxNormalWorkers),
          workerCount |-> ToU32(0),
          stopOnce    |-> "fresh",
          isStopped   |-> FALSE]

\* NewDynamicThreadPool: nil when either ceiling is zero.
NewDynamicThreadPool(maxPriorityWorkers, maxNormalWorkers) ==
    IF maxPriorityWorkers = 0 THEN Nil
    ELSE IF maxNormalWorkers = 0 THEN Nil
    ELSE [maxPriorityWorkers |-> maxPriorityWorkers,
          maxNormalWorkers   |-> maxNormalWorkers,
          priorityCh  |-> MakeChan(U32Val(U32Mul(ToU32(maxPriorityWorkers), 2))),
          normalCh    |-> MakeChan(U32Val(U32Mul(ToU32(maxNormalWorkers), 10))),
          closeCh     |-> MakeChan(0),
          wg          |-> 0,
          prioritySem |-> MakeChan(maxPriorityWorkers),
          normalSem   |-> MakeChan(maxNormalWorkers),
          workerCount |-> ToU32(0),
          stopOnce    |-> "fresh",
          isStopped   |-> FALSE]

\* NewStaticThreadPool with a shutdown channel one slot short.
NewStaticThreadPool_SmallClose(count) ==
    IF count = 0 THEN Nil
    ELSE [worker     |-> count,
          close      |-> MakeChan(count - 1),
          wg         |-> 0,
          priorityCh |-> MakeChan(U32Val(U32Mul(ToU32(count), 2))),
          normalCh   |-> MakeChan(U32Val(U32Mul(ToU32(count), 5000)))]

\* NewStaticThreadPool: nil when the count is zero.
NewStaticThreadPool(count) ==
    IF count = 0 THEN Nil
    ELSE [worker     |-> count,
          close      |-> MakeChan(count),
          wg         |-> 0,
          priorityCh |-> MakeChan(U32Val(U32Mul(ToU32(count), 2))),
          normalCh   |-> MakeChan(U32Val(U32Mul(ToU32(count), 5000)))]

\* ------------------------------------------------------------------- state

VARIABLES
    dp,         \* the DynamicThreadPool
    dSched,     \* dSched[t]: the Schedule(urgent, t) call: [pc, urgent, afterStop]
    dWorker,    \* dWorker[t]: the goroutine that call spawned: [pc, task]
    dStop,      \* dStop[s]: the s-th Stop() call's position
    dExecuted,  \* dExecuted[t]: how many times t.Execute() has returned
    dFault,     \* the panic that ended the process, or NoFault
    sp,         \* the StaticThreadPool
    sStarted,   \* Start() has been called
    sLoops,     \* sLoops[mode]: the Do(mode) loops waiting in their select
    sExec,      \* sExec[t]: the mode of the loop executing t, or "none"
    sSched,     \* sSched[t]: the Schedule(urgent, t) call: [pc, urgent]
    sStop,      \* sStop[s]: the s-th Stop() call: [pc, i, late]
    sExecuted,  \* sExecuted[t]: how many times t.Execute() has returned
    sFault,     \* the panic that ended the process, or NoFault
    created,    \* the last constructor call: [ctor, args, pool], or Nil
    ct,         \* the CustomTimer
    timers,     \* timers[i]: the i-th time.Timer made: [state, when]
    runs,       \* runs[r]: the r-th run() goroutine: [pc, timer]
    now,        \* the clock, in ticks
    cbLog,      \* one entry per invocation of the callback
    tCalls,     \* the calls made on the CustomTimer: [n, ops, last, resets, late]
    unpaused,   \* ticks since Start or the last Reset for which paused was false
    aw,         \* the AsyncWriter
    awRun,      \* the goroutine of AsyncWriter.run: [pc, data]
    awWrite,    \* awWrite[w]: the w-th Write call: [pc, afterClose]
    awClose,    \* awClose[s]: the s-th Close() call's position
    awOut,      \* the buffers handed to the underlying writer, in order
    awAccepted, \* the buffers sent on the channel, in order
    awFault     \* the panic that ended the process, or NoFault

dvars == <<dp, dSched, dWorker, dStop, dExecuted, dFault>>

svars == <<sp, sStarted, sLoops, sExec, sSched, sStop, sExecuted, sFault>>

tvars == <<ct, timers, runs, now, cbLog, tCalls, unpaused>>

wvars == <<aw, awRun, awWrite, awClose, awOut, awAccepted, awFault>>

vars == <<dvars, svars, created, tvars, wvars>>

\* ------------------------------------------------------ DynamicThreadPool

\* The queue and the semaphore fields of a class.
QueueOf(urgent) == IF urgent THEN "priorityCh" ELSE "normalCh"

\* One semaphore for both classes.
SemOf_Shared(urgent) == "prioritySem"

SemOf(urgent) == IF urgent THEN "prioritySem" ELSE "normalSem"

DynamicInit ==
    /\ \E c \in DynamicCeilings : dp = NewDynamicThreadPool(c[1], c[2])
    /\ dSched = [t \in Tasks |-> [pc |-> "idle", urgent |-> FALSE, afterStop |-> FALSE]]
    /\ dWorker = [t \in Tasks |-> [pc |-> "none", task |-> 0]]
    /\ dStop = [s \in Stoppers |-> "idle"]
    /\ dExecuted = [t \in Tasks |-> 0]
    /\ dFault = NoFault

\* Schedule without the isStopped check of lines 69-72.
DynamicSchedule_NoStoppedCheck(t, urgent) ==
    /\ dFault = NoFault
    /\ dSched[t].pc = "idle"
    /\ \A e \in Tasks : e < t => dSched[e].pc # "idle"
    /\ dSched' = [dSched EXCEPT ![t] =
                    [pc |-> "select", urgent |-> urgent,
                     afterStop |-> \E s \in Stoppers : dStop[s] = "returned"]]
    /\ UNCHANGED <<dp, dWorker, dStop, dExecuted, dFault>>
    /\ UNCHANGED <<svars, created, tvars, wvars>>

\* Schedule that enqueues the task before it returns false on a stopped pool.
DynamicSchedule_EnqueueWhenStopped(t, urgent) ==
    /\ dFault = NoFault
    /\ dSched[t].pc = "idle"
    /\ \A e \in Tasks : e < t => dSched[e].pc # "idle"
    /\ dSched' = [dSched EXCEPT ![t] =
                    [pc |-> IF dp.isStopped THEN "false" ELSE "select",
                     urgent |-> urgent,
                     afterStop |-> \E s \in Stoppers : dStop[s] = "returned"]]
    /\ dp' = IF dp.isStopped /\ SendReady(dp[QueueOf(urgent)])
                 /\ ~SendPanics(dp[QueueOf(urgent)])
             THEN [dp EXCEPT ![QueueOf(urgent)] = Send(@, t)]
             ELSE dp
    /\ UNCHANGED <<dWorker, dStop, dExecuted, dFault>>
    /\ UNCHANGED <<svars, created, tvars, wvars>>

\* Schedule, line 69: the isStopped check on entry. Calls are numbered in the
\* order in which they begin (any number of them may be in progress at once).
\* afterStop: a Stop call had already returned when this call began.
DynamicSchedule(t, urgent) ==
    /\ dFault = NoFault
    /\ dSched[t].pc = "idle"
    /\ \A e \in Tasks : e < t => dSched[e].pc # "idle"
    /\ dSched' = [dSched EXCEPT ![t] =
                    [pc |-> IF dp.isStopped THEN "false" ELSE "select",
                     urgent |-> urgent,
                     afterStop |-> \E s \in Stoppers : dStop[s] = "returned"]]
    /\ UNCHANGED <<dp, dWorker, dStop, dExecuted, dFault>>
    /\ UNCHANGED <<svars, created, tvars, wvars>>

\* Schedule, lines 76-83 / 86-93: select { queue <- item ; <-closeCh }.
\* Go picks among the ready cases at random; a send on a closed queue panics.
\* With no case ready the caller parks on both channels, and the operation
\* that wakes it decides its case: a receive from the queue completes its send
\* (DynamicWorkerSelect), close(closeCh) makes it return false
\* (DynamicStopClose).
DynamicScheduleSelect(t) ==
    /\ dFault = NoFault
    /\ dSched[t].pc = "select"
    /\ LET q == QueueOf(dSched[t].urgent) IN
       \/ /\ SendReady(dp[q])
          /\ ~SendPanics(dp[q])
          /\ dp' = [dp EXCEPT ![q] = Send(@, t)]
          /\ dSched' = [dSched EXCEPT ![t].pc = "launch"]
          /\ UNCHANGED dFault
       \/ /\ SendReady(dp[q])
          /\ SendPanics(dp[q])
          /\ dFault' = "Schedule: send on closed channel"
          /\ dSched' = [dSched EXCEPT ![t].pc = "panic"]
          /\ UNCHANGED dp
       \/ /\ RecvReady(dp.closeCh)
          /\ dSched' = [dSched EXCEPT ![t].pc = "false"]
          /\ UNCHANGED <<dp, dFault>>
       \/ /\ ~SendReady(dp[q])
          /\ ~RecvReady(dp.closeCh)
          /\ dp' = [dp EXCEPT ![q].sendq = Append(@, t)]
          /\ dSched' = [dSched EXCEPT ![t].pc = "parked"]
          /\ UNCHANGED dFault
    /\ UNCHANGED <<dWorker, dStop, dExecuted>>
    /\ UNCHANGED <<svars, created, tvars, wvars>>

\* tryLaunch*Worker, lines 99-101 / 113-115: give up when stopped.
DynamicTryLaunch(t) ==
    /\ dFault = NoFault
    /\ dSched[t].pc = "launch"
    /\ dSched' = [dSched EXCEPT ![t].pc =
                    IF dp.isStopped THEN "true" ELSE "acquire"]
    /\ UNCHANGED <<dp, dWorker, dStop, dExecuted, dFault>>
    /\ UNCHANGED <<svars, created, tvars, wvars>>

\* tryLaunch*Worker launching its worker without waiting for a semaphore slot.
DynamicAcquire_NoLimit(t) ==
    /\ dFault = NoFault
    /\ dSched[t].pc = "acquire"
    /\ dp' = [dp EXCEPT ![SemOf(dSched[t].urgent)] = Send(@, 0),
                        !.workerCount = U32Add(@, ToU32(1)),
                        !.wg = @ + 1]
    /\ dWorker' = [dWorker EXCEPT ![t] = [pc |-> "select", task |-> 0]]
    /\ dSched' = [dSched EXCEPT ![t].pc = "true"]
    /\ UNCHANGED <<dStop, dExecuted, dFault>>
    /\ UNCHANGED <<svars, created, tvars, wvars>>

\* tryLaunch*Worker, lines 104-107 / 117-120: sem <- struct{}{} (a blocking
\* send, which panics on a closed semaphore); workerCount.Add(1); wg.Add(1);
\* go worker; then Schedule returns true.
DynamicAcquire(t) ==
    /\ dFault = NoFault
    /\ dSched[t].pc = "acquire"
    /\ LET sem == SemOf(dSched[t].urgent) IN
       /\ SendReady(dp[sem])
       /\ IF SendPanics(dp[sem])
          THEN /\ dFault' = "tryLaunch: send on closed channel"
               /\ dSched' = [dSched EXCEPT ![t].pc = "panic"]
               /\ UNCHANGED <<dp, dWorker>>
          ELSE /\ dp' = [dp EXCEPT ![sem] = Send(@, 0),
                                   !.workerCount = U32Add(@, ToU32(1)),
                                   !.wg = @ + 1]
               /\ dWorker' = [dWorker EXCEPT ![t] = [pc |-> "select", task |-> 0]]
               /\ dSched' = [dSched EXCEPT ![t].pc = "true"]
               /\ UNCHANGED dFault
    /\ UNCHANGED <<dStop, dExecuted>>
    /\ UNCHANGED <<svars, created, tvars, wvars>>

\* A worker that keeps its semaphore slot when it ends.
DynamicRelease_Keep(sem) == dp

\* The worker's deferred function, line 128 / 154: <-sem releases the slot.
DynamicRelease(sem) == [dp EXCEPT ![sem] = Recv(@)]

\* A worker that executes the head of its queue and leaves it in the queue.
DynamicWorkerSelect_NoDequeue(w) ==
    /\ dFault = NoFault
    /\ dWorker[w].pc = "select"
    /\ LET q == QueueOf(dSched[w].urgent) IN
       \/ /\ RecvReady(dp.closeCh)
          /\ dWorker' = [dWorker EXCEPT ![w].pc = "dec"]
          /\ dp' = DynamicRelease(SemOf(dSched[w].urgent))
       \/ /\ RecvOk(dp[q])
          /\ dWorker' = [dWorker EXCEPT ![w] = [pc |-> "exec", task |-> Head(dp[q].buf)]]
          /\ UNCHANGED dp
    /\ UNCHANGED <<dSched, dStop, dExecuted, dFault>>
    /\ UNCHANGED <<svars, created, tvars, wvars>>

\* priorityWorkerTask / normalWorkerTask, the select: the shutdown signal, or
\* one task of the worker's own class (ok = false on a closed, empty queue).
\* A worker that returns without a task runs its deferred release at once.
DynamicWorkerSelect(w) ==
    /\ dFault = NoFault
    /\ dWorker[w].pc = "select"
    /\ LET q == QueueOf(dSched[w].urgent)
           sem == SemOf(dSched[w].urgent) IN
       \/ /\ RecvReady(dp.closeCh)
          /\ dWorker' = [dWorker EXCEPT ![w].pc = "dec"]
          /\ dp' = DynamicRelease(sem)
          /\ UNCHANGED dSched
       \/ /\ RecvReady(dp[q])
          /\ RecvOk(dp[q])
          /\ dWorker' = [dWorker EXCEPT ![w] = [pc |-> "exec", task |-> Head(dp[q].buf)]]
          /\ dp' = [dp EXCEPT ![q] = Recv(@)]
          /\ dSched' = [t \in Tasks |->
                          IF t \in Woken(dp[q]) THEN [dSched[t] EXCEPT !.pc = "launch"]
                          ELSE dSched[t]]
       \/ /\ RecvReady(dp[q])
          /\ ~RecvOk(dp[q])
          /\ dWorker' = [dWorker EXCEPT ![w].pc = "dec"]
          /\ dp' = DynamicRelease(sem)
          /\ UNCHANGED dSched
    /\ UNCHANGED <<dStop, dExecuted, dFault>>
    /\ UNCHANGED <<svars, created, tvars, wvars>>

\* task.Execute() returns, line 145 / 170, and the deferred function releases
\* the worker's semaphore slot.
DynamicWorkerExecute(w) ==
    /\ dFault = NoFault
    /\ dWorker[w].pc = "exec"
    /\ dExecuted' = [dExecuted EXCEPT ![dWorker[w].task] = @ + 1]
    /\ dWorker' = [dWorker EXCEPT ![w] = [pc |-> "dec", task |-> 0]]
    /\ dp' = DynamicRelease(SemOf(dSched[w].urgent))
    /\ UNCHANGED <<dSched, dStop, dFault>>
    /\ UNCHANGED <<svars, created, tvars, wvars>>

\* A worker that ends without wg.Done().
DynamicWorkerDone_NoWgDone(w) ==
    /\ dFault = NoFault
    /\ dWorker[w].pc = "dec"
    /\ dp' = [dp EXCEPT !.workerCount = U32Add(@, U32AllOnes)]
    /\ dWorker' = [dWorker EXCEPT ![w].pc = "exited"]
    /\ UNCHANGED <<dSched, dStop, dExecuted, dFault>>
    /\ UNCHANGED <<svars, created, tvars, wvars>>

\* The deferred function, lines 129-130 / 155-156: workerCount.Add(^uint32(0));
\* wg.Done().
DynamicWorkerDone(w) ==
    /\ dFault = NoFault
    /\ dWorker[w].pc = "dec"
    /\ dp' = [dp EXCEPT !.workerCount = U32Add(@, U32AllOnes), !.wg = @ - 1]
    /\ dWorker' = [dWorker EXCEPT ![w].pc = "exited"]
    /\ UNCHANGED <<dSched, dStop, dExecuted, dFault>>
    /\ UNCHANGED <<svars, created, tvars, wvars>>

\* Stop running its body on every call, without the sync.Once.
DynamicStop_NoOnce(s) ==
    /\ dFault = NoFault
    /\ dStop[s] = "idle"
    /\ \A e \in Stoppers : e < s => dStop[e] # "idle"
    /\ dp' = [dp EXCEPT !.stopOnce = "running", !.isStopped = TRUE]
    /\ dStop' = [dStop EXCEPT ![s] = "close"]
    /\ UNCHANGED <<dSched, dWorker, dExecuted, dFault>>
    /\ UNCHANGED <<svars, created, tvars, wvars>>

\* Stop, lines 177-179: stopOnce.Do. The first caller runs the function, which
\* begins with isStopped.Store(true); any other caller waits inside Do until
\* that run has finished. Calls are numbered in the order in which they begin.
DynamicStop(s) ==
    /\ dFault = NoFault
    /\ dStop[s] = "idle"
    /\ \A e \in Stoppers : e < s => dStop[e] # "idle"
    /\ IF dp.stopOnce = "fresh"
       THEN /\ dp' = [dp EXCEPT !.stopOnce = "running", !.isStopped = TRUE]
            /\ dStop' = [dStop EXCEPT ![s] = "close"]
       ELSE /\ dStop' = [dStop EXCEPT ![s] = "once"]
            /\ UNCHANGED dp
    /\ UNCHANGED <<dSched, dWorker, dExecuted, dFault>>
    /\ UNCHANGED <<svars, created, tvars, wvars>>

\* Stop going on to wg.Wait() without close(closeCh).
DynamicStopClose_NoSignal(s) ==
    /\ dFault = NoFault
    /\ dStop[s] = "close"
    /\ dStop' = [dStop EXCEPT ![s] = "wait"]
    /\ UNCHANGED <<dp, dSched, dWorker, dExecuted, dFault>>
    /\ UNCHANGED <<svars, created, tvars, wvars>>

\* Stop, line 182: close(closeCh). Every Schedule call parked in its select is
\* woken with the shutdown case and returns false; it leaves the queue's
\* waiting senders.
DynamicStopClose(s) ==
    /\ dFault = NoFault
    /\ dStop[s] = "close"
    /\ dp' = [dp EXCEPT !.closeCh = Close(@),
                        !.priorityCh.sendq = <<>>, !.normalCh.sendq = <<>>]
    /\ dSched' = [t \in Tasks |->
                    IF dSched[t].pc = "parked" THEN [dSched[t] EXCEPT !.pc = "false"]
                    ELSE dSched[t]]
    /\ dStop' = [dStop EXCEPT ![s] = "wait"]
    /\ UNCHANGED <<dWorker, dExecuted, dFault>>
    /\ UNCHANGED <<svars, created, tvars, wvars>>

\* Stop, line 185: wg.Wait() returns once the counter is zero.
DynamicStopWait(s) ==
    /\ dFault = NoFault
    /\ dStop[s] = "wait"
    /\ dp.wg = 0
    /\ dStop' = [dStop EXCEPT ![s] = "closeAll"]
    /\ UNCHANGED <<dp, dSched, dWorker, dExecuted, dFault>>
    /\ UNCHANGED <<svars, created, tvars, wvars>>

\* Stop, lines 190-198: the two queues and the two semaphores are closed, the
\* Once is done and Stop returns.
DynamicStopCloseAll(s) ==
    /\ dFault = NoFault
    /\ dStop[s] = "closeAll"
    /\ dp' = [dp EXCEPT !.priorityCh = Close(@), !.normalCh = Close(@),
                        !.prioritySem = Close(@), !.normalSem = Close(@),
                        !.stopOnce = "done"]
    /\ dStop' = [dStop EXCEPT ![s] = "returned"]
    /\ UNCHANGED <<dSched, dWorker, dExecuted, dFault>>
    /\ UNCHANGED <<svars, created, tvars, wvars>>

\* Stop, line 177: a caller that found the Once taken returns when the first
\* run is done.
DynamicStopOnceReturn(s) ==
    /\ dFault = NoFault
    /\ dStop[s] = "once"
    /\ dp.stopOnce = "done"
    /\ dStop' = [dStop EXCEPT ![s] = "returned"]
    /\ UNCHANGED <<dp, dSched, dWorker, dExecuted, dFault>>
    /\ UNCHANGED <<svars, created, tvars, wvars>>

\* GetActiveWorkers
GetActiveWorkers == dp.workerCount

DynamicNext ==
    \/ \E t \in Tasks, urgent \in BOOLEAN : DynamicSchedule(t, urgent)
    \/ \E t \in Tasks : DynamicScheduleSelect(t)
    \/ \E t \in Tasks : DynamicTryLaunch(t)
    \/ \E t \in Tasks : DynamicAcquire(t)
    \/ \E w \in Tasks : DynamicWorkerSelect(w)
    \/ \E w \in Tasks : DynamicWorkerExecute(w)
    \/ \E w \in Tasks : DynamicWorkerDone(w)
    \/ \E s \in Stoppers : DynamicStop(s)
    \/ \E s \in Stoppers : DynamicStopClose(s)
    \/ \E s \in Stoppers : DynamicStopWait(s)
    \/ \E s \in Stoppers : DynamicStopCloseAll(s)
    \/ \E s \in Stoppers : DynamicStopOnceReturn(s)


\* ------------------------------------------------------- StaticThreadPool

StaticInit ==
    /\ \E c \in StaticCounts : sp = NewStaticThreadPool(c)
    /\ sStarted = FALSE
    /\ sLoops = [priority |-> 0, mixed |-> 0]
    /\ sExec = [t \in Tasks |-> "none"]
    /\ sSched = [t \in Tasks |-> [pc |-> "idle", urgent |-> FALSE]]
    /\ sStop = [s \in Stoppers |-> [pc |-> "idle", i |-> 0, late |-> FALSE]]
    /\ sExecuted = [t \in Tasks |-> 0]
    /\ sFault = NoFault

\* Start, line 42: highPriority := (t.worker * 10) / 100, in uint32.
HighPriority(worker) == U32Div(U32Mul(ToU32(worker), 10), 100)

\* Start spawning every loop in priority-only mode.
StartModes_AllPriority(worker) == [priority |-> worker, mixed |-> 0]

\* Start, lines 44-47: the modes of the loops spawned, go t.Do(i < highPriority)
\* for i = 0 .. worker-1: the i below highPriority are counted as priority, the
\* others as mixed (counted without enumerating the i, worker being any uint32).
StartModes(worker) ==
    LET below == IF HighPriority(worker) < worker THEN HighPriority(worker) ELSE worker
    IN  [priority |-> below, mixed |-> worker - below]

\* Start: wg.Add(1) and go t.Do(..) for every worker. The pool is started at
\* most once, and not after a Stop call has begun.
StaticStart ==
    /\ sFault = NoFault
    /\ ~sStarted
    /\ \A s \in Stoppers : sStop[s].pc = "idle"
    /\ sStarted' = TRUE
    /\ sLoops' = StartModes(sp.worker)
    /\ sp' = [sp EXCEPT !.wg = @ + sp.worker]
    /\ UNCHANGED <<sExec, sSched, sStop, sExecuted, sFault>>
    /\ UNCHANGED <<dvars, created, tvars, wvars>>

\* Schedule: one blocking send on the queue of the task's class; a send on a
\* closed queue panics. Calls are numbered in the order their sends complete.
\* A call that returns is "done" when no Stop call had begun, "late" otherwise.
StaticSchedule(t, urgent) ==
    /\ sFault = NoFault
    /\ sSched[t].pc = "idle"
    /\ \A e \in Tasks : e < t => sSched[e].pc # "idle"
    /\ LET q == QueueOf(urgent) IN
       /\ SendReady(sp[q])
       /\ IF SendPanics(sp[q])
          THEN /\ sFault' = "Schedule: send on closed channel"
               /\ sSched' = [sSched EXCEPT ![t] = [pc |-> "panic", urgent |-> urgent]]
               /\ UNCHANGED sp
          ELSE /\ sp' = [sp EXCEPT ![q] = Send(@, t)]
               /\ sSched' = [sSched EXCEPT ![t] =
                               [pc |-> IF \A e \in Stoppers : sStop[e].pc = "idle"
                                       THEN "done" ELSE "late",
                                urgent |-> urgent]]
               /\ UNCHANGED sFault
    /\ UNCHANGED <<sStarted, sLoops, sExec, sStop, sExecuted>>
    /\ UNCHANGED <<dvars, created, tvars, wvars>>

\* A loop that executes the head of a queue and leaves it in the queue.
StaticDoSelect_NoDequeue(mode) ==
    /\ sFault = NoFault
    /\ sLoops[mode] > 0
    /\ \/ \E q \in (IF mode = "priority" THEN {"priorityCh"} ELSE {"priorityCh", "normalCh"}) :
            /\ RecvOk(sp[q])
            /\ sExec[Head(sp[q].buf)] = "none"
            /\ sExec' = [sExec EXCEPT ![Head(sp[q].buf)] = mode]
            /\ sLoops' = [sLoops EXCEPT ![mode] = @ - 1]
            /\ UNCHANGED <<sp, sFault>>
       \/ /\ RecvReady(sp.close)
          /\ sp' = [sp EXCEPT !.close = Recv(@), !.wg = @ - 1]
          /\ sLoops' = [sLoops EXCEPT ![mode] = @ - 1]
          /\ UNCHANGED <<sExec, sFault>>
    /\ UNCHANGED <<sStarted, sSched, sStop, sExecuted>>
    /\ UNCHANGED <<dvars, created, tvars, wvars>>

\* A loop that serves the priority queue only, whatever its mode.
StaticDoSelect_PriorityOnly(mode) ==
    /\ sFault = NoFault
    /\ sLoops[mode] > 0
    /\ RecvOk(sp.priorityCh)
    /\ sExec' = [sExec EXCEPT ![Head(sp.priorityCh.buf)] = mode]
    /\ sp' = [sp EXCEPT !.priorityCh = Recv(@)]
    /\ sLoops' = [sLoops EXCEPT ![mode] = @ - 1]
    /\ UNCHANGED <<sStarted, sSched, sStop, sExecuted, sFault>>
    /\ UNCHANGED <<dvars, created, tvars, wvars>>

\* Do with every loop serving both queues.
StaticDoSelect_AnyQueue(mode) ==
    /\ sFault = NoFault
    /\ sLoops[mode] > 0
    /\ \/ \E q \in {"priorityCh", "normalCh"} :
            /\ RecvReady(sp[q])
            /\ IF RecvOk(sp[q])
               THEN /\ sExec' = [sExec EXCEPT ![Head(sp[q].buf)] = mode]
                    /\ sp' = [sp EXCEPT ![q] = Recv(@)]
                    /\ sLoops' = [sLoops EXCEPT ![mode] = @ - 1]
                    /\ UNCHANGED sFault
               ELSE /\ sFault' = "Do: nil Task"
                    /\ UNCHANGED <<sp, sLoops, sExec>>
       \/ /\ RecvReady(sp.close)
          /\ sp' = [sp EXCEPT !.close = Recv(@), !.wg = @ - 1]
          /\ sLoops' = [sLoops EXCEPT ![mode] = @ - 1]
          /\ UNCHANGED <<sExec, sFault>>
    /\ UNCHANGED <<sStarted, sSched, sStop, sExecuted>>
    /\ UNCHANGED <<dvars, created, tvars, wvars>>

\* Do, one pass of the select of a loop of the given mode: a task from the
\* priority queue, (mixed loops only) a task from the normal queue, or a
\* shutdown signal. Go picks among the ready cases at random. A receive from a
\* closed, empty queue yields a nil Task, and item.Execute() panics on it.
StaticDoSelect(mode) ==
    /\ sFault = NoFault
    /\ sLoops[mode] > 0
    /\ \/ \E q \in (IF mode = "priority" THEN {"priorityCh"} ELSE {"priorityCh", "normalCh"}) :
            /\ RecvReady(sp[q])
            /\ IF RecvOk(sp[q])
               THEN /\ sExec' = [sExec EXCEPT ![Head(sp[q].buf)] = mode]
                    /\ sp' = [sp EXCEPT ![q] = Recv(@)]
                    /\ sLoops' = [sLoops EXCEPT ![mode] = @ - 1]
                    /\ UNCHANGED sFault
               ELSE /\ sFault' = "Do: nil Task"
                    /\ UNCHANGED <<sp, sLoops, sExec>>
       \/ /\ RecvReady(sp.close)
          /\ sp' = [sp EXCEPT !.close = Recv(@), !.wg = @ - 1]
          /\ sLoops' = [sLoops EXCEPT ![mode] = @ - 1]
          /\ UNCHANGED <<sExec, sFault>>
    /\ UNCHANGED <<sStarted, sSched, sStop, sExecuted>>
    /\ UNCHANGED <<dvars, created, tvars, wvars>>

\* Do: item.Execute() returns and the loop goes back to its select.
StaticDoExecute(t) ==
    /\ sFault = NoFault
    /\ sExec[t] # "none"
    /\ sExecuted' = [sExecuted EXCEPT ![t] = @ + 1]
    /\ sLoops' = [sLoops EXCEPT ![sExec[t]] = @ + 1]
    /\ sExec' = [sExec EXCEPT ![t] = "none"]
    /\ UNCHANGED <<sp, sStarted, sSched, sStop, sFault>>
    /\ UNCHANGED <<dvars, created, tvars, wvars>>

\* Stop, lines 52-54, the loop t.close <- 1, once per worker, from the i-th
\* send on. The sends that find room in the channel are taken together; the
\* loop blocks while the channel is full, and a send on the closed channel
\* panics.
StaticStopLoop(s, i, late) ==
    /\ SendReady(sp.close)
    /\ IF SendPanics(sp.close)
       THEN /\ sFault' = "Stop: send on closed channel"
            /\ sStop' = [sStop EXCEPT ![s] = [pc |-> "panic", i |-> i, late |-> late]]
            /\ UNCHANGED sp
       ELSE LET room == sp.close.cap - Len(sp.close.buf)
                left == sp.worker - i
                n    == IF left < room THEN left ELSE room
            IN  /\ sp' = [sp EXCEPT !.close.buf = @ \o [k \in 1..n |-> 1]]
                /\ sStop' = [sStop EXCEPT ![s] =
                               [pc |-> IF n < left THEN "send" ELSE "wait",
                                i |-> i + n, late |-> late]]
                /\ UNCHANGED sFault

\* Stop is called and reaches its first send. late: another Stop call had
\* already returned. Calls are numbered in the order in which they begin.
StaticStop(s) ==
    /\ sFault = NoFault
    /\ sStop[s].pc = "idle"
    /\ \A e \in Stoppers : e < s => sStop[e].pc # "idle"
    /\ StaticStopLoop(s, 0, \E e \in Stoppers : sStop[e].pc = "returned")
    /\ UNCHANGED <<sStarted, sLoops, sExec, sSched, sExecuted>>
    /\ UNCHANGED <<dvars, created, tvars, wvars>>

\* Stop, lines 52-54: the loop goes on when the channel has room again.
StaticStopSend(s) ==
    /\ sFault = NoFault
    /\ sStop[s].pc = "send"
    /\ StaticStopLoop(s, sStop[s].i, sStop[s].late)
    /\ UNCHANGED <<sStarted, sLoops, sExec, sSched, sExecuted>>
    /\ UNCHANGED <<dvars, created, tvars, wvars>>

\* Stop going on to close the channels without wg.Wait().
StaticStopWait_NoWait(s) ==
    /\ sFault = NoFault
    /\ sStop[s].pc = "wait"
    /\ sStop' = [sStop EXCEPT ![s].pc = "close"]
    /\ UNCHANGED <<sp, sStarted, sLoops, sExec, sSched, sExecuted, sFault>>
    /\ UNCHANGED <<dvars, created, tvars, wvars>>

\* Stop, line 56: wg.Wait() returns once the counter is zero.
StaticStopWait(s) ==
    /\ sFault = NoFault
    /\ sStop[s].pc = "wait"
    /\ sp.wg = 0
    /\ sStop' = [sStop EXCEPT ![s].pc = "close"]
    /\ UNCHANGED <<sp, sStarted, sLoops, sExec, sSched, sExecuted, sFault>>
    /\ UNCHANGED <<dvars, created, tvars, wvars>>

\* Stop, lines 58-60: close(t.close); close(t.priorityCh); close(t.normalCh);
\* closing a closed channel panics. Then Stop returns.
StaticStopClose(s) ==
    /\ sFault = NoFault
    /\ sStop[s].pc = "close"
    /\ IF sp.close.closed \/ sp.priorityCh.closed \/ sp.normalCh.closed
       THEN /\ sFault' = "Stop: close of closed channel"
            /\ sStop' = [sStop EXCEPT ![s].pc = "panic"]
            /\ UNCHANGED sp
       ELSE /\ sp' = [sp EXCEPT !.close = Close(@), !.priorityCh = Close(@),
                                !.normalCh = Close(@)]
            /\ sStop' = [sStop EXCEPT ![s].pc = "returned"]
            /\ UNCHANGED sFault
    /\ UNCHANGED <<sStarted, sLoops, sExec, sSched, sExecuted>>
    /\ UNCHANGED <<dvars, created, tvars, wvars>>

StaticNext ==
    \/ StaticStart
    \/ \E t \in Tasks, urgent \in BOOLEAN : StaticSchedule(t, urgent)
    \/ \E mode \in {"priority", "mixed"} : StaticDoSelect(mode)
    \/ \E t \in Tasks : StaticDoExecute(t)
    \/ \E s \in Stoppers : StaticStop(s)
    \/ \E s \in Stoppers : StaticStopSend(s)
    \/ \E s \in Stoppers : StaticStopWait(s)
    \/ \E s \in Stoppers : StaticStopClose(s)

\* ------------------------------------------------------------ CustomTimer

\* The nil value of the timer field.
NoTimer == 0

\* NewCustomTimer: the fields other than duration have their zero values.
NewCustomTimer(duration) ==
    [duration      |-> duration,
     timer         |-> NoTimer,
     paused        |-> FALSE,
     lastStartTime |-> 0,
     activeElapsed |-> 0]

\* No call has been made on the timer.
NoCalls == [n |-> 0, ops |-> {}, last |-> "none", resets |-> 0, late |-> {}]

TimerIdle ==
    /\ ct = Nil
    /\ timers = <<>>
    /\ runs = <<>>
    /\ now = 0
    /\ cbLog = <<>>
    /\ tCalls = NoCalls
    /\ unpaused = 0

TimerInit ==
    /\ \E d \in Durations : ct = NewCustomTimer(d)
    /\ timers = <<>>
    /\ runs = <<>>
    /\ now = 0
    /\ cbLog = <<>>
    /\ tCalls = NoCalls
    /\ unpaused = 0

\* time.NewTimer(d), d > 0: it sends on its channel C once, d from now.
NewTimer(d) == [state |-> "active", when |-> now + d]

\* timer.Stop(): a timer not yet expired never sends; for one that has sent on
\* C a value nobody has received, the value stays in C or is discarded,
\* depending on the Go release.
StopOutcomes(tm) ==
    CASE tm.state = "active" -> {[tm EXCEPT !.state = "stopped"]}
      [] tm.state = "fired"  -> {tm, [tm EXCEPT !.state = "drained"]}
      [] OTHER               -> {tm}

\* The CustomTimer has yet to expire: it was never started, or it is paused
\* with its timer stopped in time, or its timer is active with its time still
\* ahead. (A stopped timer that is not paused is one whose callback Resume
\* has made.)
BeforeExpiry ==
    \/ ct.timer = NoTimer
    \/ timers[ct.timer].state = "stopped" /\ ct.paused
    \/ timers[ct.timer].state = "active" /\ now < timers[ct.timer].when

\* The record of the calls, after one more: how many, which methods, the
\* last one, how many Reset calls, and which methods were called when the
\* expiry of the current timer was already due.
Called(op) ==
    [n      |-> tCalls.n + 1,
     ops    |-> tCalls.ops \cup {op},
     last   |-> op,
     resets |-> tCalls.resets + (IF op = "Reset" THEN 1 ELSE 0),
     late   |-> tCalls.late \cup (IF BeforeExpiry THEN {} ELSE {op})]

\* An invocation of t.callback(): who made it, the un-paused time at that
\* moment, and the number of Reset calls before it.
Callback(by) ==
    Append(cbLog, [by |-> by, unpaused |-> unpaused, resets |-> tCalls.resets])

\* go t.run()
GoRun == Append(runs, [pc |-> "start", timer |-> NoTimer])

\* Start without the test of line 27.
TimerStart_Always ==
    /\ ct # Nil
    /\ tCalls.n < MaxCalls
    /\ tCalls' = Called("Start")
    /\ timers' = Append(timers, NewTimer(ct.duration))
    /\ ct' = [ct EXCEPT !.lastStartTime = now, !.timer = Len(timers) + 1]
    /\ runs' = GoRun
    /\ unpaused' = 0
    /\ UNCHANGED <<now, cbLog>>
    /\ UNCHANGED <<dvars, svars, created, wvars>>

\* Start, lines 26-32.
TimerStart ==
    /\ ct # Nil
    /\ tCalls.n < MaxCalls
    /\ tCalls' = Called("Start")
    /\ IF ct.timer = NoTimer /\ ~ct.paused
       THEN /\ timers' = Append(timers, NewTimer(ct.duration))
            /\ ct' = [ct EXCEPT !.lastStartTime = now, !.timer = Len(timers) + 1]
            /\ runs' = GoRun
            /\ unpaused' = 0
       ELSE UNCHANGED <<ct, timers, runs, unpaused>>
    /\ UNCHANGED <<now, cbLog>>
    /\ UNCHANGED <<dvars, svars, created, wvars>>

\* Pause without the test of line 36.
TimerPause_Always ==
    /\ ct # Nil
    /\ tCalls.n < MaxCalls
    /\ tCalls' = Called("Pause")
    /\ IF ct.timer # NoTimer
       THEN \E tm \in StopOutcomes(timers[ct.timer]) :
                /\ timers' = [timers EXCEPT ![ct.timer] = tm]
                /\ ct' = [ct EXCEPT !.activeElapsed = @ + (now - ct.lastStartTime),
                                    !.paused = TRUE]
       ELSE UNCHANGED <<ct, timers>>
    /\ UNCHANGED <<runs, now, cbLog, unpaused>>
    /\ UNCHANGED <<dvars, svars, created, wvars>>

\* Pause, lines 35-43.
TimerPause ==
    /\ ct # Nil
    /\ tCalls.n < MaxCalls
    /\ tCalls' = Called("Pause")
    /\ IF ct.timer # NoTimer /\ ~ct.paused
       THEN \E tm \in StopOutcomes(timers[ct.timer]) :
                /\ timers' = [timers EXCEPT ![ct.timer] = tm]
                /\ ct' = [ct EXCEPT !.activeElapsed = @ + (now - ct.lastStartTime),
                                    !.paused = TRUE]
       ELSE UNCHANGED <<ct, timers>>
    /\ UNCHANGED <<runs, now, cbLog, unpaused>>
    /\ UNCHANGED <<dvars, svars, created, wvars>>

\* Resume with a timer of the whole duration.
TimerResume_FullDuration ==
    /\ ct # Nil
    /\ tCalls.n < MaxCalls
    /\ tCalls' = Called("Resume")
    /\ IF ct.paused
       THEN /\ timers' = Append(timers, NewTimer(ct.duration))
            /\ ct' = [ct EXCEPT !.paused = FALSE,
                                !.timer = Len(timers) + 1,
                                !.lastStartTime = now]
            /\ runs' = GoRun
       ELSE UNCHANGED <<ct, timers, runs>>
    /\ UNCHANGED <<now, unpaused, cbLog>>
    /\ UNCHANGED <<dvars, svars, created, wvars>>

\* Resume, lines 46-58.
TimerResume ==
    /\ ct # Nil
    /\ tCalls.n < MaxCalls
    /\ tCalls' = Called("Resume")
    /\ IF ct.paused
       THEN LET remainingDuration == ct.duration - ct.activeElapsed
            IN  IF remainingDuration > 0
                THEN /\ timers' = Append(timers, NewTimer(remainingDuration))
                     /\ ct' = [ct EXCEPT !.paused = FALSE,
                                         !.timer = Len(timers) + 1,
                                         !.lastStartTime = now]
                     /\ runs' = GoRun
                     /\ UNCHANGED cbLog
                ELSE /\ ct' = [ct EXCEPT !.paused = FALSE]
                     /\ cbLog' = Callback("Resume")
                     /\ UNCHANGED <<timers, runs>>
       ELSE UNCHANGED <<ct, timers, runs, cbLog>>
    /\ UNCHANGED <<now, unpaused>>
    /\ UNCHANGED <<dvars, svars, created, wvars>>

\* Reset without the Stop of lines 61-63.
TimerReset_NoStop ==
    /\ ct # Nil
    /\ tCalls.n < MaxCalls
    /\ tCalls' = Called("Reset")
    /\ timers' = Append(timers, NewTimer(ct.duration))
    /\ ct' = [ct EXCEPT !.paused = FALSE,
                        !.lastStartTime = now,
                        !.timer = Len(timers) + 1]
    /\ runs' = GoRun
    /\ unpaused' = 0
    /\ UNCHANGED <<now, cbLog>>
    /\ UNCHANGED <<dvars, svars, created, wvars>>

\* Reset, lines 61-69.
TimerReset ==
    /\ ct # Nil
    /\ tCalls.n < MaxCalls
    /\ tCalls' = Called("Reset")
    /\ \E stopped \in (IF ct.timer # NoTimer
                       THEN {[timers EXCEPT ![ct.timer] = tm] :
                                 tm \in StopOutcomes(timers[ct.timer])}
                       ELSE {timers}) :
           timers' = Append(stopped, NewTimer(ct.duration))
    /\ ct' = [ct EXCEPT !.paused = FALSE,
                        !.lastStartTime = now,
                        !.timer = Len(timers) + 1]
    /\ runs' = GoRun
    /\ unpaused' = 0
    /\ UNCHANGED <<now, cbLog>>
    /\ UNCHANGED <<dvars, svars, created, wvars>>

\* The runtime sends on the channel of a timer whose time has come.
TimerFire(i) ==
    /\ ct # Nil
    /\ i \in 1..Len(timers)
    /\ timers[i].state = "active"
    /\ timers[i].when <= now
    /\ timers' = [timers EXCEPT ![i].state = "fired"]
    /\ UNCHANGED <<ct, runs, now, cbLog, tCalls, unpaused>>
    /\ UNCHANGED <<dvars, svars, created, wvars>>

\* run, line 73: the goroutine reads t.timer, without synchronisation, to
\* find the channel it will wait on.
TimerRunRead(r) ==
    /\ ct # Nil
    /\ r \in 1..Len(runs)
    /\ runs[r].pc = "start"
    /\ runs' = [runs EXCEPT ![r] = [pc |-> "wait", timer |-> ct.timer]]
    /\ UNCHANGED <<ct, timers, now, cbLog, tCalls, unpaused>>
    /\ UNCHANGED <<dvars, svars, created, wvars>>

\* run without the callback.
TimerRunRecv_NoCallback(r) ==
    /\ ct # Nil
    /\ r \in 1..Len(runs)
    /\ runs[r].pc = "wait"
    /\ timers[runs[r].timer].state = "fired"
    /\ timers' = [timers EXCEPT ![runs[r].timer].state = "received"]
    /\ runs' = [runs EXCEPT ![r].pc = "done"]
    /\ UNCHANGED <<ct, now, cbLog, tCalls, unpaused>>
    /\ UNCHANGED <<dvars, svars, created, wvars>>

\* run, lines 73-74: the goroutine receives the timer's value and calls the
\* callback.
TimerRunRecv(r) ==
    /\ ct # Nil
    /\ r \in 1..Len(runs)
    /\ runs[r].pc = "wait"
    /\ timers[runs[r].timer].state = "fired"
    /\ timers' = [timers EXCEPT ![runs[r].timer].state = "received"]
    /\ runs' = [runs EXCEPT ![r].pc = "done"]
    /\ cbLog' = Callback("run")
    /\ UNCHANGED <<ct, now, tCalls, unpaused>>
    /\ UNCHANGED <<dvars, svars, created, wvars>>

\* The timer is counting: it was started and the paused flag is not set.
Counting == ct.timer # NoTimer /\ ~ct.paused

\* Something is due at this instant: a timer to expire, or a step of a run()
\* goroutine.
Due ==
    \/ \E i \in 1..Len(timers) : timers[i].state = "active" /\ timers[i].when <= now
    \/ \E r \in 1..Len(runs) :
           \/ runs[r].pc = "start"
           \/ runs[r].pc = "wait" /\ timers[runs[r].timer].state = "fired"

\* One tick of time passes; expiries and the steps of the run() goroutines
\* take no time, so the clock waits for those that are due. The clock starts
\* when the first timer is made.
TimerTick ==
    /\ ct # Nil
    /\ timers # <<>>
    /\ now < MaxTime
    /\ ~Due
    /\ now' = now + 1
    /\ unpaused' = IF Counting THEN unpaused + 1 ELSE unpaused
    /\ UNCHANGED <<ct, timers, runs, cbLog, tCalls>>
    /\ UNCHANGED <<dvars, svars, created, wvars>>

TimerNext ==
    \/ TimerStart
    \/ TimerPause
    \/ TimerResume
    \/ TimerReset
    \/ \E i \in 1..MaxCalls : TimerFire(i)
    \/ \E r \in 1..MaxCalls : TimerRunRead(r)
    \/ \E r \in 1..MaxCalls : TimerRunRecv(r)
    \/ TimerTick

\* ------------------------------------------------------------ AsyncWriter

WriterIdle ==
    /\ aw = Nil
    /\ awRun = [pc |-> "none", data |-> 0]
    /\ awWrite = [w \in Writes |-> [pc |-> "idle", afterClose |-> FALSE]]
    /\ awClose = [s \in Stoppers |-> "idle"]
    /\ awOut = <<>>
    /\ awAccepted = <<>>
    /\ awFault = NoFault

\* NewAsyncWriter, lines 269-279: the channel, the counter at one for the
\* goroutine; closeOnce has not run.
NewAsyncWriter(bufferSize) ==
    [ch     |-> MakeChan(IF bufferSize <= 0 THEN 1024 ELSE bufferSize),
     closed |-> FALSE,
     wg     |-> 1,
     once   |-> "new"]

\* After NewAsyncWriter: the goroutine is at the head of its range loop.
WriterInit ==
    /\ \E n \in WriterSizes : aw = NewAsyncWriter(n)
    /\ awRun = [pc |-> "range", data |-> 0]
    /\ awWrite = [w \in Writes |-> [pc |-> "idle", afterClose |-> FALSE]]
    /\ awClose = [s \in Stoppers |-> "idle"]
    /\ awOut = <<>>
    /\ awAccepted = <<>>
    /\ awFault = NoFault

\* Some Close call has returned.
WriterCloseReturned == \E s \in Stoppers : awClose[s] = "returned"

\* Write, lines 298-302: the first select; the buffer w is then copied.
WriterWrite(w) ==
    /\ awFault = NoFault
    /\ awWrite[w].pc = "idle"
    /\ \A e \in Writes : e < w => awWrite[e].pc # "idle"
    /\ awWrite' = [awWrite EXCEPT ![w] =
                     [pc |-> IF aw.closed THEN "closed" ELSE "select",
                      afterClose |-> WriterCloseReturned]]
    /\ UNCHANGED <<aw, awRun, awClose, awOut, awAccepted, awFault>>
    /\ UNCHANGED <<dvars, svars, created, tvars>>

\* Write, lines 308-313: the second select. A case that is ready is taken,
\* either one when both are; the send case on a closed channel panics. With
\* neither ready the call parks, and what wakes it decides its case: a
\* receive completes its send (WriterRunRange), close(aw.closed) makes it
\* return io.ErrClosedPipe (WriterCloseClosed).
WriterWriteSelect(w) ==
    /\ awFault = NoFault
    /\ awWrite[w].pc = "select"
    /\ \/ /\ SendReady(aw.ch)
          /\ ~SendPanics(aw.ch)
          /\ aw' = [aw EXCEPT !.ch = Send(@, w)]
          /\ awAccepted' = Append(awAccepted, w)
          /\ awWrite' = [awWrite EXCEPT ![w].pc = "ok"]
          /\ UNCHANGED awFault
       \/ /\ SendReady(aw.ch)
          /\ SendPanics(aw.ch)
          /\ awFault' = "Write: send on closed channel"
          /\ awWrite' = [awWrite EXCEPT ![w].pc = "panic"]
          /\ UNCHANGED <<aw, awAccepted>>
       \/ /\ aw.closed
          /\ awWrite' = [awWrite EXCEPT ![w].pc = "closed"]
          /\ UNCHANGED <<aw, awAccepted, awFault>>
       \/ /\ ~SendReady(aw.ch)
          /\ ~aw.closed
          /\ aw' = [aw EXCEPT !.ch.sendq = Append(@, w)]
          /\ awWrite' = [awWrite EXCEPT ![w].pc = "parked"]
          /\ UNCHANGED <<awAccepted, awFault>>
    /\ UNCHANGED <<awRun, awClose, awOut>>
    /\ UNCHANGED <<dvars, svars, created, tvars>>

\* run leaving its loop as soon as the channel is closed.
WriterRunRange_NoDrain ==
    /\ awFault = NoFault
    /\ awRun.pc = "range"
    /\ IF aw.ch.closed
       THEN /\ awRun' = [pc |-> "exited", data |-> 0]
            /\ aw' = [aw EXCEPT !.wg = @ - 1]
            /\ UNCHANGED <<awWrite, awAccepted>>
       ELSE /\ RecvOk(aw.ch)
            /\ awRun' = [pc |-> "write", data |-> Head(aw.ch.buf)]
            /\ aw' = [aw EXCEPT !.ch = Recv(@)]
            /\ awWrite' = [w \in Writes |->
                             IF w \in Woken(aw.ch)
                             THEN [awWrite[w] EXCEPT !.pc = "ok"]
                             ELSE awWrite[w]]
            /\ awAccepted' = IF Woken(aw.ch) = {} THEN awAccepted
                             ELSE Append(awAccepted, Head(aw.ch.sendq))
    /\ UNCHANGED <<awClose, awOut, awFault>>
    /\ UNCHANGED <<dvars, svars, created, tvars>>

\* run, lines 285-286: for data := range aw.ch. A value is received, which
\* completes the send of the first parked Write; on the closed and empty
\* channel the loop ends and the deferred wg.Done() runs.
WriterRunRange ==
    /\ awFault = NoFault
    /\ awRun.pc = "range"
    /\ RecvReady(aw.ch)
    /\ IF RecvOk(aw.ch)
       THEN /\ awRun' = [pc |-> "write", data |-> Head(aw.ch.buf)]
            /\ aw' = [aw EXCEPT !.ch = Recv(@)]
            /\ awWrite' = [w \in Writes |->
                             IF w \in Woken(aw.ch)
                             THEN [awWrite[w] EXCEPT !.pc = "ok"]
                             ELSE awWrite[w]]
            /\ awAccepted' = IF Woken(aw.ch) = {} THEN awAccepted
                             ELSE Append(awAccepted, Head(aw.ch.sendq))
       ELSE /\ awRun' = [pc |-> "exited", data |-> 0]
            /\ aw' = [aw EXCEPT !.wg = @ - 1]
            /\ UNCHANGED <<awWrite, awAccepted>>
    /\ UNCHANGED <<awClose, awOut, awFault>>
    /\ UNCHANGED <<dvars, svars, created, tvars>>

\* run, lines 287-290: aw.writer.Write(data); an error is reported and the
\* loop goes on.
WriterRunWrite ==
    /\ awFault = NoFault
    /\ awRun.pc = "write"
    /\ awOut' = Append(awOut, awRun.data)
    /\ awRun' = [pc |-> "range", data |-> 0]
    /\ UNCHANGED <<aw, awWrite, awClose, awAccepted, awFault>>
    /\ UNCHANGED <<dvars, svars, created, tvars>>

\* Close, line 320: closeOnce.Do. The first call runs the function, a call
\* made while it runs waits for it, a later call skips it.
WriterClose(s) ==
    /\ awFault = NoFault
    /\ awClose[s] = "idle"
    /\ \A e \in Stoppers : e < s => awClose[e] # "idle"
    /\ awClose' = [awClose EXCEPT ![s] =
                     CASE aw.once = "new"     -> "closeClosed"
                       [] aw.once = "running" -> "once"
                       [] OTHER               -> "wait"]
    /\ aw' = [aw EXCEPT !.once = IF @ = "new" THEN "running" ELSE @]
    /\ UNCHANGED <<awRun, awWrite, awOut, awAccepted, awFault>>
    /\ UNCHANGED <<dvars, svars, created, tvars>>

\* Close, line 321: close(aw.closed). The Write calls parked in their select
\* take the closed case.
WriterCloseClosed(s) ==
    /\ awFault = NoFault
    /\ awClose[s] = "closeClosed"
    /\ aw' = [aw EXCEPT !.closed = TRUE, !.ch.sendq = <<>>]
    /\ awWrite' = [w \in Writes |->
                     IF awWrite[w].pc = "parked"
                     THEN [awWrite[w] EXCEPT !.pc = "closed"]
                     ELSE awWrite[w]]
    /\ awClose' = [awClose EXCEPT ![s] = "closeCh"]
    /\ UNCHANGED <<awRun, awOut, awAccepted, awFault>>
    /\ UNCHANGED <<dvars, svars, created, tvars>>

\* Close, line 322: close(aw.ch); closeOnce.Do is then over.
WriterCloseCh(s) ==
    /\ awFault = NoFault
    /\ awClose[s] = "closeCh"
    /\ aw' = [aw EXCEPT !.ch = Close(@), !.once = "done"]
    /\ awClose' = [awClose EXCEPT ![s] = "wait"]
    /\ UNCHANGED <<awRun, awWrite, awOut, awAccepted, awFault>>
    /\ UNCHANGED <<dvars, svars, created, tvars>>

\* Close, line 320: a call that waited in closeOnce.Do goes on.
WriterCloseOnceReturn(s) ==
    /\ awFault = NoFault
    /\ awClose[s] = "once"
    /\ aw.once = "done"
    /\ awClose' = [awClose EXCEPT ![s] = "wait"]
    /\ UNCHANGED <<aw, awRun, awWrite, awOut, awAccepted, awFault>>
    /\ UNCHANGED <<dvars, svars, created, tvars>>

\* Close, lines 325-330: aw.wg.Wait(), then the underlying writer is closed
\* if it can be, and Close returns.
WriterCloseWait(s) ==
    /\ awFault = NoFault
    /\ awClose[s] = "wait"
    /\ aw.wg = 0
    /\ awClose' = [awClose EXCEPT ![s] = "returned"]
    /\ UNCHANGED <<aw, awRun, awWrite, awOut, awAccepted, awFault>>
    /\ UNCHANGED <<dvars, svars, created, tvars>>

WriterNext ==
    \/ \E w \in Writes : WriterWrite(w)
    \/ \E w \in Writes : WriterWriteSelect(w)
    \/ WriterRunRange
    \/ WriterRunWrite
    \/ \E s \in Stoppers : WriterClose(s)
    \/ \E s \in Stoppers : WriterCloseClosed(s)
    \/ \E s \in Stoppers : WriterCloseCh(s)
    \/ \E s \in Stoppers : WriterCloseOnceReturn(s)
    \/ \E s \in Stoppers : WriterCloseWait(s)

\* ---------------------------------------------------------- specifications

\* A pool that is not the one under study: never constructed, never called.
DynamicIdle ==
    /\ dp = Nil
    /\ dSched = [t \in Tasks |-> [pc |-> "idle", urgent |-> FALSE, afterStop |-> FALSE]]
    /\ dWorker = [t \in Tasks |-> [pc |-> "none", task |-> 0]]
    /\ dStop = [s \in Stoppers |-> "idle"]
    /\ dExecuted = [t \in Tasks |-> 0]
    /\ dFault = NoFault

StaticIdle ==
    /\ sp = Nil
    /\ sStarted = FALSE
    /\ sLoops = [priority |-> 0, mixed |-> 0]
    /\ sExec = [t \in Tasks |-> "none"]
    /\ sSched = [t \in Tasks |-> [pc |-> "idle", urgent |-> FALSE]]
    /\ sStop = [s \in Stoppers |-> [pc |-> "idle", i |-> 0, late |-> FALSE]]
    /\ sExecuted = [t \in Tasks |-> 0]
    /\ sFault = NoFault

\* The constructors applied to arguments 0..MaxArg.
CreateStatic(count) ==
    /\ created' = [ctor |-> "NewStaticThreadPool", args |-> <<count>>,
                   pool |-> NewStaticThreadPool(count)]
    /\ UNCHANGED <<dvars, svars, tvars, wvars>>

CreateDynamic(maxPriorityWorkers, maxNormalWorkers) ==
    /\ created' = [ctor |-> "NewDynamicThreadPool",
                   args |-> <<maxPriorityWorkers, maxNormalWorkers>>,
                   pool |-> NewDynamicThreadPool(maxPriorityWorkers, maxNormalWorkers)]
    /\ UNCHANGED <<dvars, svars, tvars, wvars>>

CreateNext ==
    \/ \E count \in 0..MaxArg : CreateStatic(count)
    \/ \E p \in 0..MaxArg, n \in 0..MaxArg : CreateDynamic(p, n)

InitDynamic == DynamicInit /\ StaticIdle /\ created = Nil /\ TimerIdle /\ WriterIdle

InitStatic == StaticInit /\ DynamicIdle /\ created = Nil /\ TimerIdle /\ WriterIdle

InitCreate == DynamicIdle /\ StaticIdle /\ created = Nil /\ TimerIdle /\ WriterIdle

\* The dynamic pool alone.
SpecDynamic == InitDynamic /\ [][DynamicNext]_vars

\* The static pool alone.
SpecStatic == InitStatic /\ [][StaticNext]_vars

\* The constructors alone.
SpecCreate == InitCreate /\ [][CreateNext]_vars

InitTimer == TimerInit /\ DynamicIdle /\ StaticIdle /\ created = Nil /\ WriterIdle

\* The timer alone.
SpecTimer == InitTimer /\ [][TimerNext]_vars

InitWriter == WriterInit /\ DynamicIdle /\ StaticIdle /\ created = Nil /\ TimerIdle

\* The writer alone.
SpecWriter == InitWriter /\ [][WriterNext]_vars

\* The dynamic pool on which Stop is never called.
DynamicRunNext ==
    \/ \E t \in Tasks, urgent \in BOOLEAN : DynamicSchedule(t, urgent)
    \/ \E t \in Tasks : DynamicScheduleSelect(t)
    \/ \E t \in Tasks : DynamicTryLaunch(t)
    \/ \E t \in Tasks : DynamicAcquire(t)
    \/ \E w \in Tasks : DynamicWorkerSelect(w)
    \/ \E w \in Tasks : DynamicWorkerExecute(w)
    \/ \E w \in Tasks : DynamicWorkerDone(w)

\* Every goroutine that can take a step eventually takes one (the Go scheduler
\* runs every runnable goroutine), and every Execute returns. Whether and when
\* a caller calls Schedule is left open.
DynamicRunFairness ==
    \A t \in Tasks :
        /\ WF_vars(DynamicScheduleSelect(t))
        /\ WF_vars(DynamicTryLaunch(t))
        /\ WF_vars(DynamicAcquire(t))
        /\ WF_vars(DynamicWorkerSelect(t))
        /\ WF_vars(DynamicWorkerExecute(t))
        /\ WF_vars(DynamicWorkerDone(t))

SpecDynamicRun == InitDynamic /\ [][DynamicRunNext]_vars /\ DynamicRunFairness

\* The pool of TestStartStop and TestScheduleAfterStop, NewDynamicThreadPool(1, 1):
\* its urgent queue holds two tasks, so that a third urgent Schedule call blocks.
InitDynamicOne ==
    /\ InitDynamic
    /\ dp.maxPriorityWorkers = 1
    /\ dp.maxNormalWorkers = 1

\* A Stop call that has begun goes on whenever it can.
DynamicStopFairness ==
    \A s \in Stoppers :
        /\ WF_vars(DynamicStopClose(s))
        /\ WF_vars(DynamicStopWait(s))
        /\ WF_vars(DynamicStopCloseAll(s))
        /\ WF_vars(DynamicStopOnceReturn(s))

\* The dynamic pool under urgent submissions only: with one urgent worker slot
\* and an urgent queue of two, the submitters fill the queue and the semaphore.
DynamicUrgentNext ==
    \/ \E t \in Tasks : DynamicSchedule(t, TRUE)
    \/ \E t \in Tasks : DynamicScheduleSelect(t)
    \/ \E t \in Tasks : DynamicTryLaunch(t)
    \/ \E t \in Tasks : DynamicAcquire(t)
    \/ \E w \in Tasks : DynamicWorkerSelect(w)
    \/ \E w \in Tasks : DynamicWorkerExecute(w)
    \/ \E w \in Tasks : DynamicWorkerDone(w)
    \/ \E s \in Stoppers : DynamicStop(s)
    \/ \E s \in Stoppers : DynamicStopClose(s)
    \/ \E s \in Stoppers : DynamicStopWait(s)
    \/ \E s \in Stoppers : DynamicStopCloseAll(s)
    \/ \E s \in Stoppers : DynamicStopOnceReturn(s)

\* The dynamic pool with its Stop calls, every goroutine scheduled fairly.
SpecDynamicFair ==
    InitDynamicOne /\ [][DynamicUrgentNext]_vars
        /\ DynamicRunFairness /\ DynamicStopFairness

\* Start's arithmetic alone, on a pool of the given worker count.
StartCompute(worker) ==
    /\ created' = [ctor |-> "Start", args |-> <<worker>>,
                   highPriority |-> HighPriority(worker),
                   modes |-> StartModes(worker)]
    /\ UNCHANGED <<dvars, svars, tvars, wvars>>

StartNext == \E worker \in (1..MaxStartCount) \cup LargeCounts : StartCompute(worker)

SpecStart == InitCreate /\ [][StartNext]_vars

\* Either pool: one of the two is constructed and used.
InitPools == InitDynamic \/ InitStatic

PoolsNext ==
    \/ dp # Nil /\ DynamicNext
    \/ sp # Nil /\ StaticNext

SpecPools == InitPools /\ [][PoolsNext]_vars

\* A caller submits one more task after a task of its was executed (the loop
\* of Schedule calls of TestPrioritySchedule, without end): the executed task's
\* identity is used again for the new task.
StaticResubmit(t) ==
    /\ sFault = NoFault
    /\ sSched[t].pc \in {"done", "late"}
    /\ sExecuted[t] = 1
    /\ sSched' = [sSched EXCEPT ![t].pc = "idle"]
    /\ sExecuted' = [sExecuted EXCEPT ![t] = 0]
    /\ UNCHANGED <<sp, sStarted, sLoops, sExec, sStop, sFault>>
    /\ UNCHANGED <<dvars, created, tvars, wvars>>

\* The static pool on which Stop is never called, under sustained submission.
StaticRunNext ==
    \/ StaticStart
    \/ \E t \in Tasks, urgent \in BOOLEAN : StaticSchedule(t, urgent)
    \/ \E mode \in {"priority", "mixed"} : StaticDoSelect(mode)
    \/ \E t \in Tasks : StaticDoExecute(t)
    \/ \E t \in Tasks : StaticResubmit(t)

\* A pass of a loop's select that takes the head of queue q.
StaticDoTake(mode, q) ==
    /\ RecvOk(sp[q])
    /\ StaticDoSelect(mode)
    /\ sp'[q] = Recv(sp[q])

\* Every Execute returns, and the select of a loop is fair: a case that is
\* ready again and again is eventually the one chosen (Go chooses uniformly at
\* random among the ready cases).
StaticRunFairness ==
    /\ \A t \in Tasks : WF_vars(StaticDoExecute(t))
    /\ SF_vars(StaticDoTake("priority", "priorityCh"))
    /\ SF_vars(StaticDoTake("mixed", "priorityCh"))
    /\ SF_vars(StaticDoTake("mixed", "normalCh"))

SpecStaticRun == InitStatic /\ [][StaticRunNext]_vars /\ StaticRunFairness

\* The static pool with one Stop call, while the first task is submitted
\* again and again.
StaticOneStopNext ==
    \/ StaticStart
    \/ \E t \in Tasks, urgent \in BOOLEAN : StaticSchedule(t, urgent)
    \/ \E mode \in {"priority", "mixed"} : StaticDoSelect(mode)
    \/ \E t \in Tasks : StaticDoExecute(t)
    \/ StaticResubmit(1)
    \/ StaticStop(1)
    \/ StaticStopWait(1)
    \/ StaticStopClose(1)

\* A pass of a loop's select that takes a shutdown signal.
StaticDoQuit(mode) ==
    /\ RecvOk(sp.close)
    /\ StaticDoSelect(mode)
    /\ sp'.close = Recv(sp.close)

\* The Stop call goes on whenever it can, and the shutdown case of a loop's
\* select, ready again and again, is eventually the one chosen.
StaticStopFairness ==
    /\ WF_vars(StaticStopWait(1))
    /\ WF_vars(StaticStopClose(1))
    /\ SF_vars(StaticDoQuit("priority"))
    /\ SF_vars(StaticDoQuit("mixed"))

SpecStaticStopFair ==
    InitStatic /\ [][StaticOneStopNext]_vars
        /\ StaticRunFairness /\ StaticStopFairness

\* ------------------------------------------------------------------ claims

\* How often x occurs in a sequence.
Count(seq, x) == Cardinality({i \in 1..Len(seq) : seq[i] = x})

\* The tasks a dynamic-pool worker of a class is executing.
DynamicExecuting(urgent) ==
    {w \in Tasks : dWorker[w].pc = "exec" /\ dSched[w].urgent = urgent}

DynamicQueued(t) == Count(dp.priorityCh.buf, t) + Count(dp.normalCh.buf, t)

DynamicBeingExecuted(t) ==
    Cardinality({w \in Tasks : dWorker[w].pc = "exec" /\ dWorker[w].task = t})

DynamicStopReturned == \E s \in Stoppers : dStop[s] = "returned"

StaticQueued(t) == Count(sp.priorityCh.buf, t) + Count(sp.normalCh.buf, t)

StaticStopReturned == \E s \in Stoppers : sStop[s].pc = "returned"

\* C1: in every reachable state of the dynamic pool at most maxPriorityWorkers
\* urgent workers and at most maxNormalWorkers normal workers are executing a
\* task.
C1_CapacityBound ==
    /\ Cardinality(DynamicExecuting(TRUE)) <= dp.maxPriorityWorkers
    /\ Cardinality(DynamicExecuting(FALSE)) <= dp.maxNormalWorkers

\* Both classes are at their ceiling and a further urgent Schedule call is
\* blocked on the full priority semaphore.
C1_Witness ==
    /\ Cardinality(DynamicExecuting(TRUE)) = dp.maxPriorityWorkers
    /\ Cardinality(DynamicExecuting(FALSE)) = dp.maxNormalWorkers
    /\ \E t \in Tasks : /\ dSched[t].pc = "acquire"
                        /\ dSched[t].urgent
                        /\ ~SendReady(dp.prioritySem)

C3_RejectedAfterStop ==
    \A t \in Tasks : dSched[t].afterStop =>
        /\ dSched[t].pc = "false"
        /\ DynamicQueued(t) = 0
        /\ dWorker[t].pc = "none"
        /\ DynamicBeingExecuted(t) = 0
        /\ dExecuted[t] = 0

\* A pool that executed a task was stopped, and a later Schedule call was
\* rejected.
C3_Witness ==
    \E t, u \in Tasks :
        /\ dSched[t].afterStop /\ dSched[t].pc = "false"
        /\ dSched[u].pc = "true" /\ dExecuted[u] = 1

\* C4 as stated: when a Stop call has returned, every worker spawned by a
\* Schedule call has terminated.
C4_Claim ==
    DynamicStopReturned =>
        \A w \in Tasks : dWorker[w].pc \in {"none", "exited"}

\* C5, a Stop call that returned: the first call's shutdown is complete.
C5_ShutdownComplete ==
    DynamicStopReturned =>
        /\ dp.stopOnce = "done"
        /\ dp.isStopped
        /\ dp.closeCh.closed
        /\ dp.priorityCh.closed /\ dp.normalCh.closed
        /\ dp.prioritySem.closed /\ dp.normalSem.closed

\* C5, a step of a Stop call other than the first (one that found the Once
\* taken): it changes nothing but that call's own position.
C5_NoEffect ==
    \A s \in Stoppers :
        (/\ dStop'[s] # dStop[s]
         /\ \/ dStop[s] = "once"
            \/ dStop[s] = "idle" /\ dp.stopOnce # "fresh")
        => /\ dp' = dp
           /\ dSched' = dSched
           /\ dWorker' = dWorker
           /\ dExecuted' = dExecuted
           /\ dFault' = dFault
           /\ dStop'[s] \in {"once", "returned"}

\* C5: a Stop call after the first changes no pool state, closes no channel and
\* returns only once the first call's shutdown has completed.
C5_IdempotentStop == [][C5_NoEffect]_vars /\ []C5_ShutdownComplete

\* Every Stop call made has returned.
C5_Witness == \A s \in Stoppers : dStop[s] = "returned"

\* C6 as stated: a Stop call of the static pool made after another Stop call
\* has returned completes without fault.
C6_Claim == \A s \in Stoppers : sStop[s].late => sStop[s].pc # "panic"

\* C7: a constructor handed a zero yields nil; handed arguments >= 1 it yields
\* a pool with those ceilings, empty open queues, no live worker, not stopped.
C7_Construction ==
    created # Nil =>
        IF created.ctor = "NewStaticThreadPool"
        THEN IF created.args[1] = 0
             THEN created.pool = Nil
             ELSE /\ created.pool # Nil
                  /\ created.pool.worker = created.args[1]
                  /\ created.pool.priorityCh.buf = <<>>
                  /\ created.pool.normalCh.buf = <<>>
                  /\ created.pool.close.buf = <<>>
                  /\ created.pool.wg = 0
                  /\ ~created.pool.close.closed
                  /\ ~created.pool.priorityCh.closed
                  /\ ~created.pool.normalCh.closed
        ELSE IF created.args[1] = 0 \/ created.args[2] = 0
             THEN created.pool = Nil
             ELSE /\ created.pool # Nil
                  /\ created.pool.maxPriorityWorkers = created.args[1]
                  /\ created.pool.maxNormalWorkers = created.args[2]
                  /\ created.pool.priorityCh.buf = <<>>
                  /\ created.pool.normalCh.buf = <<>>
                  /\ created.pool.prioritySem.buf = <<>>
                  /\ created.pool.normalSem.buf = <<>>
                  /\ created.pool.workerCount = ToU32(0)
                  /\ created.pool.wg = 0
                  /\ ~created.pool.isStopped
                  /\ ~created.pool.closeCh.closed

\* NewDynamicThreadPool(5, 0) has returned nil.
C7_Witness ==
    /\ created # Nil
    /\ created.ctor = "NewDynamicThreadPool"
    /\ created.args = <<5, 0>>
    /\ created.pool = Nil

\* C8 as stated: at most floor(workerCount / 10) workers of the static pool
\* are executing urgent tasks.
C8_Original ==
    Cardinality({t \in Tasks : sExec[t] # "none" /\ sSched[t].urgent})
        <= sp.worker \div 10

\* C8 amended: at most floor(workerCount / 10) priority-only workers are
\* executing, and at most workerCount workers in all are executing urgent
\* tasks, the mixed workers executing urgent tasks too.
C8_Amended ==
    /\ Cardinality({t \in Tasks : sExec[t] = "priority"}) <= sp.worker \div 10
    /\ Cardinality({t \in Tasks : sExec[t] # "none" /\ sSched[t].urgent}) <= sp.worker

\* With 10 workers, the priority-only worker and a mixed worker are executing
\* an urgent task each.
C8_Witness ==
    /\ sp.worker = 10
    /\ \E t, u \in Tasks :
          /\ sExec[t] = "priority" /\ sSched[t].urgent
          /\ sExec[u] = "mixed" /\ sSched[u].urgent

\* C9 as stated: when Stop has returned on a started static pool, every task
\* whose Schedule call returned before a Stop call began has been executed
\* exactly once and is in no queue.
C9_Original ==
    (StaticStopReturned /\ sStarted) =>
        \A t \in Tasks : sSched[t].pc = "done" =>
            sExecuted[t] = 1 /\ StaticQueued(t) = 0

\* C9 amended: ... every such task has been executed exactly once or is left
\* unexecuted in its queue; none is being executed or was executed twice.
C9_Amended ==
    (StaticStopReturned /\ sStarted) =>
        \A t \in Tasks : sSched[t].pc = "done" =>
            /\ sExec[t] = "none"
            /\ sExecuted[t] + StaticQueued(t) = 1

\* Stop has returned on a started pool with one accepted task executed and
\* another left in its queue.
C9_Witness ==
    /\ StaticStopReturned
    /\ sStarted
    /\ \E t, u \in Tasks :
          /\ sSched[t].pc = "done" /\ sExecuted[t] = 1
          /\ sSched[u].pc = "done" /\ sExecuted[u] = 0 /\ StaticQueued(u) = 1

\* C10: when Stop has returned on a started static pool, every worker loop has
\* exited and no task is being executed.
C10_Drained ==
    (StaticStopReturned /\ sStarted) =>
        /\ sLoops.priority = 0
        /\ sLoops.mixed = 0
        /\ sp.wg = 0
        /\ \A t \in Tasks : sExec[t] = "none"

\* Stop has returned on a started pool after waiting for a task that was
\* accepted and executed while the Stop call was in progress.
C10_Witness ==
    /\ StaticStopReturned
    /\ sStarted
    /\ \E t \in Tasks : sSched[t].pc = "late" /\ sExecuted[t] = 1

\* C11, first half: a Schedule call has returned false only if Stop has been
\* invoked.
C11_FalseOnlyStopped ==
    \A t \in Tasks : dSched[t].pc = "false" => \E s \in Stoppers : dStop[s] # "idle"

\* C11, second half: a step that completes a Schedule call's enqueue (after
\* which the call returns true) is taken with the stopped flag not set.
C11_NoAcceptOnceStopped ==
    \A t \in Tasks :
        (dSched[t].pc \in {"select", "parked"} /\ dSched'[t].pc = "launch")
            => ~dp.isStopped

\* C11 as stated: Schedule returns false only if Stop has been invoked, and no
\* Schedule call enqueues its task and returns true once the stopped flag is
\* set.
C11_Claim == []C11_FalseOnlyStopped /\ [][C11_NoAcceptOnceStopped]_vars

\* C12, a step: a Schedule call acquires a semaphore slot and spawns its worker
\* only while the stopped flag is not set.
C12_NoSpawnOnceStopped ==
    \A t \in Tasks :
        (dWorker[t].pc = "none" /\ dWorker'[t].pc = "select") => ~dp.isStopped

\* C12 as stated: once Stop has set the stopped flag no semaphore slot is
\* acquired and no worker is spawned.
C12_Claim == [][C12_NoSpawnOnceStopped]_vars

\* C13: on a dynamic pool that is never stopped, every Schedule call that has
\* begun eventually returns true, its task is eventually executed, and the
\* worker it spawned eventually terminates.
C13_EventuallyExecuted ==
    \A t \in Tasks :
        (dSched[t].pc # "idle") ~>
            (dSched[t].pc = "true" /\ dExecuted[t] = 1 /\ dWorker[t].pc = "exited")

\* Three urgent tasks were submitted to a pool with one urgent worker slot, and
\* all of them have been executed.
C13_Witness ==
    /\ dp.maxPriorityWorkers = 1
    /\ \A t \in Tasks : dSched[t].urgent /\ dSched[t].pc = "true" /\ dExecuted[t] = 1

\* C14: on a started static pool that is never stopped, every task in a queue,
\* urgent or normal, is eventually executed, however many further tasks are
\* submitted.
C14_EventuallyExecuted ==
    \A t \in Tasks : (sStarted /\ StaticQueued(t) = 1) ~> (sExecuted[t] = 1)

\* A normal task was executed on a one-worker pool while urgent tasks were
\* waiting in the priority queue.
C14_Witness ==
    /\ sp.worker = 1
    /\ sStarted
    /\ Len(sp.priorityCh.buf) > 0
    /\ \E t \in Tasks : ~sSched[t].urgent /\ sSched[t].pc = "done" /\ sExecuted[t] = 1

\* C15 as stated: a Schedule call that has enqueued its task never waits for a
\* semaphore slot: it is not held in tryLaunch*Worker while every slot of its
\* class is taken.
C15_Claim ==
    \A t \in Tasks :
        dSched[t].pc = "acquire" => SendReady(dp[SemOf(dSched[t].urgent)])

\* A Schedule call is blocked in its select on a full queue.
DynamicParked(t) == dSched[t].pc = "parked"

DynamicStopInvoked == \E s \in Stoppers : dStop[s] # "idle"

\* C16: once the shutdown signal is given no Schedule call is blocked on a full
\* queue.
C16_NoneParkedOnceSignalled ==
    dp.closeCh.closed => \A t \in Tasks : ~DynamicParked(t)

\* C16, a step in which a blocked Schedule call comes to return false: it is
\* the shutdown signal, and the call's task is in no queue and has no worker.
C16_ReleasedFalse ==
    \A t \in Tasks :
        (DynamicParked(t) /\ dSched'[t].pc = "false") =>
            /\ ~dp.closeCh.closed /\ dp'.closeCh.closed
            /\ Count(dp'.priorityCh.buf, t) + Count(dp'.normalCh.buf, t) = 0
            /\ dWorker'[t].pc = "none"

\* C16, liveness: a Schedule call blocked on a full queue when Stop has been
\* invoked eventually returns (unless the process has been ended by a panic).
C16_EventuallyReturns ==
    \A t \in Tasks :
        (DynamicParked(t) /\ DynamicStopInvoked) ~>
            (dSched[t].pc \in {"false", "true"} \/ dFault # NoFault)

DynamicLiveWorkers == {w \in Tasks : dWorker[w].pc \in {"select", "exec", "dec"}}

\* C17 as stated: GetActiveWorkers() is 0 whenever no spawned worker is live,
\* and it is 0 whenever a Stop call has returned.
C17_Claim ==
    /\ (DynamicLiveWorkers = {} => GetActiveWorkers = ToU32(0))
    /\ (DynamicStopReturned => GetActiveWorkers = ToU32(0))

\* A queue's buffer changes only by losing its head and by gaining a task at
\* its end: it holds the tasks in the order in which their sends completed.
FifoStep(old, new) ==
    \/ new = old
    \/ \E t \in Tasks : new = Append(old, t)
    \/ Len(old) > 0 /\ new = Tail(old)
    \/ Len(old) > 0 /\ \E t \in Tasks : new = Append(Tail(old), t)

\* C18, dynamic pool: a worker that dequeues takes the head of its class queue.
C18_DynamicFifo ==
    dp # Nil =>
        /\ FifoStep(dp.priorityCh.buf, dp'.priorityCh.buf)
        /\ FifoStep(dp.normalCh.buf, dp'.normalCh.buf)
        /\ \A w \in Tasks :
              (dWorker[w].pc = "select" /\ dWorker'[w].pc = "exec") =>
                  LET q == QueueOf(dSched[w].urgent) IN
                  /\ Len(dp[q].buf) > 0
                  /\ dWorker'[w].task = Head(dp[q].buf)
                  /\ dp'[q].buf # dp[q].buf

\* C18, static pool: a loop that dequeues takes the head of one of its queues.
C18_StaticFifo ==
    sp # Nil =>
        /\ FifoStep(sp.priorityCh.buf, sp'.priorityCh.buf)
        /\ FifoStep(sp.normalCh.buf, sp'.normalCh.buf)
        /\ \A t \in Tasks :
              (sExec[t] = "none" /\ sExec'[t] # "none") =>
                  \E q \in {"priorityCh", "normalCh"} :
                      /\ Len(sp[q].buf) > 0
                      /\ Head(sp[q].buf) = t
                      /\ sp'[q].buf = Tail(sp[q].buf)

\* C18: in both pools the tasks of a class are dequeued in the order in which
\* their enqueues completed.
C18_Fifo == [][C18_DynamicFifo /\ C18_StaticFifo]_vars

\* A dynamic-pool worker is executing the task of another, earlier Schedule
\* call while the task of the call that spawned it is still in the queue.
C18_Witness ==
    /\ dp # Nil
    /\ \E w \in Tasks :
          /\ dWorker[w].pc = "exec"
          /\ dWorker[w].task # w
          /\ Count(dp[QueueOf(dSched[w].urgent)].buf, w) = 1

\* C19 as stated: for every worker count, Start spawns that many loops, of
\* which floor(count / 10) are priority-only and the others mixed; below 10
\* workers none is priority-only.
C19_Claim ==
    (created # Nil /\ created.ctor = "Start") =>
        LET worker == created.args[1] IN
        /\ created.modes.priority + created.modes.mixed = worker
        /\ created.modes.priority = worker \div 10
        /\ created.modes.mixed = worker - (worker \div 10)
        /\ (worker < 10 => created.modes.priority = 0)

\* C20, liveness: every Stop call that has begun eventually returns (unless the
\* process has been ended by a panic).
C20_EventuallyReturns ==
    \A s \in Stoppers :
        (dStop[s] # "idle") ~> (dStop[s] = "returned" \/ dFault # NoFault)

\* C20, a pool with no submissions: Stop never waits at wg.Wait(), the counter
\* being zero.
C20_NoWaitWhenIdle ==
    (\A t \in Tasks : dSched[t].pc = "idle") =>
        \A s \in Stoppers : dStop[s] = "wait" => dp.wg = 0

C21_SendsNeverBlock == sStop[1].pc # "send"

\* C21, liveness: the Stop call, once begun, eventually returns.
C21_EventuallyReturns == (sStop[1].pc # "idle") ~> (sStop[1].pc = "returned")

OnlyCalled(ops) == "Start" \in tCalls.ops /\ tCalls.ops \subseteq ops

\* C22, the callback: with Start the only method called, there is one timer,
\* no callback before the duration has elapsed, and exactly one callback, made
\* by run() at the moment the duration elapsed, once it has.
C22_FiresOnce ==
    OnlyCalled({"Start"}) =>
        /\ Len(timers) = 1
        /\ unpaused < ct.duration => cbLog = <<>>
        /\ unpaused > ct.duration => Len(cbLog) = 1
        /\ Len(cbLog) <= 1
        /\ \A k \in 1..Len(cbLog) :
               cbLog[k].by = "run" /\ cbLog[k].unpaused = ct.duration

\* C22, a later Start: a Start call on a timer already started changes no
\* field, makes no timer and no goroutine, and invokes no callback.
C22_LaterStart ==
    (ct # Nil /\ ct.timer # NoTimer /\ tCalls'.n = tCalls.n + 1 /\ tCalls'.last = "Start")
        => UNCHANGED <<ct, timers, runs, cbLog, unpaused>>

\* C22: after Start the callback is invoked exactly once, when the duration
\* has elapsed, and a later Start call has no effect.
C22_StartFiresOnce == []C22_FiresOnce /\ [][C22_LaterStart]_vars

\* Start was called three times and nothing else, one of the calls after the
\* expiry, and the callback has been invoked once.
C22_Witness ==
    /\ OnlyCalled({"Start"})
    /\ tCalls.n = 3
    /\ tCalls.late # {}
    /\ Len(cbLog) = 1
    /\ unpaused > ct.duration

\* No time.Timer of the CustomTimer has expired so far.
NeverFired == \A i \in 1..Len(timers) : timers[i].state \in {"active", "stopped"}

\* C23, no callback: while a timer paused before any expiry stays paused
\* (neither Resume nor Reset is called), no timer expires and the callback is
\* not invoked, whatever else happens and however much time passes.
C23_SilentWhilePaused ==
    (ct # Nil /\ ct.paused /\ NeverFired /\ ct'.paused)
        => /\ cbLog' = cbLog
           /\ NeverFired'
           /\ timers'[ct.timer].state = "stopped"

\* C23, repeated Pause: a Pause call on a paused timer changes nothing.
C23_RepeatedPause ==
    (ct # Nil /\ ct.paused /\ tCalls'.n = tCalls.n + 1 /\ tCalls'.last = "Pause")
        => UNCHANGED <<ct, timers, runs, cbLog, unpaused>>

\* C23: after Pause on a running timer that has not fired the callback is not
\* invoked until Resume or Reset, and a repeated Pause changes nothing.
C23_PauseHolds == [][C23_SilentWhilePaused]_vars /\ [][C23_RepeatedPause]_vars

\* Start and Pause were the only methods called, the last of four calls was a
\* Pause, and the timer is still paused and silent more than a full duration
\* after it was started.
C23_Witness ==
    /\ tCalls.ops = {"Start", "Pause"}
    /\ tCalls.n = 4
    /\ tCalls.last = "Pause"
    /\ ct.paused
    /\ ct.activeElapsed < ct.duration
    /\ now > ct.lastStartTime + ct.duration
    /\ cbLog = <<>>

\* C24, the expiry: with Start, Pause and Resume the only methods called and
\* every Pause made before the expiry, there is no callback while the
\* un-paused time is short of the duration, and exactly one callback, made at
\* the moment the un-paused time equalled the duration, once it has passed it.
C24_FiresOnUnpausedTime ==
    (OnlyCalled({"Start", "Pause", "Resume"}) /\ "Pause" \notin tCalls.late) =>
        /\ unpaused < ct.duration => cbLog = <<>>
        /\ unpaused > ct.duration => Len(cbLog) = 1
        /\ Len(cbLog) <= 1
        /\ \A k \in 1..Len(cbLog) : cbLog[k].unpaused = ct.duration

\* C24, Resume on a timer that is not paused: nothing changes.
C24_ResumeUnpaused ==
    (ct # Nil /\ ~ct.paused /\ tCalls'.n = tCalls.n + 1 /\ tCalls'.last = "Resume")
        => UNCHANGED <<ct, timers, runs, cbLog, unpaused>>

\* C24: paused time does not count towards the duration, the callback fires
\* exactly once when the un-paused time equals the duration, and Resume on a
\* timer that is not paused has no effect.
C24_PausedTimeNotCounted == []C24_FiresOnUnpausedTime /\ [][C24_ResumeUnpaused]_vars

\* Five calls, Start, Pause and Resume among them and none after the expiry:
\* the timer ran for a while before a Pause, at least two ticks were spent
\* paused, and the callback has been invoked.
C24_Witness ==
    /\ tCalls.ops = {"Start", "Pause", "Resume"}
    /\ tCalls.n = 5
    /\ tCalls.late = {}
    /\ ct.activeElapsed > 0
    /\ Len(cbLog) = 1
    /\ now >= unpaused + 2

\* C25, after a Reset: with Reset the last call, made like every Pause before
\* it on a timer whose expiry was not yet due, the paused flag is clear, every
\* earlier timer is stopped, there is no callback until the full duration has
\* elapsed since the Reset, and exactly one, made by run() at that moment,
\* once it has.
C25_AfterReset ==
    (ct # Nil /\ tCalls.last = "Reset" /\ tCalls.late \cap {"Pause", "Reset"} = {}) =>
        /\ ~ct.paused
        /\ \A i \in 1..Len(timers) : i # ct.timer => timers[i].state = "stopped"
        /\ unpaused < ct.duration => cbLog = <<>>
        /\ unpaused > ct.duration => Len(cbLog) = 1
        /\ Len(cbLog) <= 1
        /\ \A k \in 1..Len(cbLog) :
               /\ cbLog[k].by = "run"
               /\ cbLog[k].unpaused = ct.duration
               /\ cbLog[k].resets = tCalls.resets

\* C25, the Reset call: it makes a timer of the full duration and clears the
\* paused flag.
C25_ResetStep ==
    (ct # Nil /\ tCalls'.n = tCalls.n + 1 /\ tCalls'.last = "Reset") =>
        /\ ~ct'.paused
        /\ ct'.timer = Len(timers) + 1
        /\ timers'[ct'.timer] = [state |-> "active", when |-> now + ct.duration]

\* C25: Reset on a running or a paused timer cancels the pending expiry,
\* clears the paused flag and restarts the full duration, after which the
\* callback is invoked exactly once.
C25_ResetRestarts == []C25_AfterReset /\ [][C25_ResetStep]_vars

\* Reset was called on the running timer and again on the paused one, no call
\* was made after an expiry, and the callback has been invoked, once, a full
\* duration after the second Reset.
C25_Witness ==
    /\ tCalls.ops = {"Start", "Pause", "Reset"}
    /\ tCalls.last = "Reset"
    /\ tCalls.resets = 2
    /\ tCalls.n = 4
    /\ tCalls.late = {}
    /\ ct.activeElapsed > 0
    /\ Len(cbLog) = 1
    /\ unpaused > ct.duration

\* The Write calls that have returned success, i.e. len(p) and a nil error.
WriterSucceeded == {w \in Writes : awWrite[w].pc = "ok"}

\* C26, at the return of Close: the buffers handed to the underlying writer
\* are those of the Write calls that returned success, each once, in the
\* order in which they were accepted, and the goroutine has ended.
C26_FlushedAtClose ==
    WriterCloseReturned =>
        /\ awOut = awAccepted
        /\ awRun.pc = "exited"
        /\ \A w \in Writes :
               Count(awOut, w) = (IF w \in WriterSucceeded THEN 1 ELSE 0)

\* C26, Write after Close: a Write call begun after a Close call returned has
\* returned io.ErrClosedPipe without sending anything.
C26_WriteAfterClose ==
    \A w \in Writes :
        awWrite[w].afterClose => awWrite[w].pc = "closed" /\ Count(awAccepted, w) = 0

\* C26: when Close returns every buffer whose Write succeeded has been
\* written once, in order, the goroutine has ended, and a later Write yields
\* io.ErrClosedPipe.
C26_CloseFlushes == C26_FlushedAtClose /\ C26_WriteAfterClose

\* Close has returned after two successful Write calls, and a third Write,
\* made afterwards, was refused.
C26_Witness ==
    /\ WriterCloseReturned
    /\ Len(awOut) = 2
    /\ \E w \in Writes : awWrite[w].afterClose /\ awWrite[w].pc = "closed"

\* C27: a worker that finds the shutdown signal closed leaves without a task,
\* so that no task starts executing once closeCh has been closed.
C27_Claim ==
    [][(dp # Nil /\ dp.closeCh.closed) =>
           \A w \in Tasks : dWorker'[w].pc = "exec" => dWorker[w].pc = "exec"]_vars

\* C28: a worker of the dynamic pool executes only tasks of the class it was
\* spawned for, and a priority loop of the static pool executes only tasks
\* submitted with urgent = true.
C28_ClassSeparation ==
    /\ dp # Nil =>
           \A w \in Tasks :
               dWorker[w].pc = "exec" =>
                   dSched[dWorker[w].task].urgent = dSched[w].urgent
    /\ sp # Nil =>
           \A t \in Tasks : sExec[t] = "priority" => sSched[t].urgent

\* A priority loop is executing an urgent task while mixed loops are
\* executing an urgent task and a normal one.
C28_Witness ==
    \E t1, t2, t3 \in Tasks :
        /\ sExec[t1] = "priority" /\ sSched[t1].urgent
        /\ sExec[t2] = "mixed" /\ sSched[t2].urgent
        /\ sExec[t3] = "mixed" /\ ~sSched[t3].urgent

\* The worker loops of the static pool that have not exited: those waiting in
\* their select and those executing a task.
StaticLiveLoops ==
    sLoops.priority + sLoops.mixed + Cardinality({t \in Tasks : sExec[t] # "none"})

\* The shutdown signals received so far: those sent and no longer in the
\* channel.
StaticSignalsConsumed ==
    LET Sent[s \in 0..MaxStops] == IF s = 0 THEN 0 ELSE Sent[s - 1] + sStop[s].i
    IN  Sent[MaxStops] - Len(sp.close.buf)

\* C29: on a started static pool every loop that has exited has consumed one
\* shutdown signal and every signal consumed has ended one loop; the shutdown
\* channel and the queues are closed only when all loops have exited; and no
\* loop receives a nil task from a closed queue.
C29_OrderlyShutdown ==
    (sp # Nil /\ sStarted) =>
        /\ StaticLiveLoops + StaticSignalsConsumed = sp.worker
        /\ (sp.close.closed \/ sp.priorityCh.closed \/ sp.normalCh.closed) =>
               /\ StaticLiveLoops = 0
               /\ sp.wg = 0
               /\ sp.close.closed /\ sp.priorityCh.closed /\ sp.normalCh.closed
        /\ sFault # "Do: nil Task"

\* Stop has returned on a started pool of 10 workers, with a task left in a
\* closed queue and a task that was executed.
C29_Witness ==
    /\ sStarted
    /\ sp.worker = 10
    /\ StaticStopReturned
    /\ sp.priorityCh.closed
    /\ \E t \in Tasks : StaticQueued(t) = 1
    /\ \E t \in Tasks : sExecuted[t] = 1

\* What a Schedule call could have changed: the contents of the queues and of
\* the semaphores, the live-worker counter and the workers.
DynamicFrame ==
    <<dp.priorityCh.buf, dp.normalCh.buf, dp.prioritySem.buf, dp.normalSem.buf,
      dp.workerCount, dWorker>>

\* C30, the steps: every step of a Schedule call on its way to returning
\* false (the check on entry, the select taking the shutdown case, parking on
\* a full queue, being woken by the shutdown signal) leaves the queues, the
\* semaphores, the counter and the workers as they were.
C30_StepsChangeNothing ==
    (dp # Nil /\ \E t \in Tasks :
                     /\ dSched'[t] # dSched[t]
                     /\ dSched'[t].pc \in {"select", "parked", "false"})
        => DynamicFrame' = DynamicFrame

\* C30, the outcome: the task of a call that returned false is in no queue,
\* was never executed, and no worker was spawned for it.
C30_NothingLeft ==
    dp # Nil =>
        \A t \in Tasks :
            dSched[t].pc = "false" =>
                /\ DynamicQueued(t) = 0
                /\ DynamicBeingExecuted(t) = 0
                /\ dExecuted[t] = 0
                /\ dWorker[t].pc = "none"

\* C30: a Schedule call that returns false has no other effect.
C30_FalseHasNoEffect == [][C30_StepsChangeNothing]_vars /\ []C30_NothingLeft

\* Two calls have returned false, one begun after a Stop call had returned
\* and one begun before, while a queue holds a task.
C30_Witness ==
    \E t1, t2 \in Tasks :
        /\ dSched[t1].pc = "false" /\ dSched[t1].afterStop
        /\ dSched[t2].pc = "false" /\ ~dSched[t2].afterStop
        /\ Len(dp.priorityCh.buf) + Len(dp.normalCh.buf) > 0

\* The workers of a class that hold a slot of its semaphore: those that have
\* not yet run their deferred release.
DynamicHolders(urgent) ==
    {w \in Tasks : dWorker[w].pc \in {"select", "exec"} /\ dSched[w].urgent = urgent}

\* A Schedule call is in progress.
DynamicScheduling ==
    \E t \in Tasks : dSched[t].pc \in {"select", "parked", "launch", "acquire"}

\* C31, the life of a worker: a worker starts a task only from its select,
\* which it enters once; when it stops holding its slot, its own semaphore
\* loses one token and the other none; when it exits, the counter goes down
\* by one.
C31_WorkerSteps ==
    dp # Nil =>
        \A w \in Tasks :
            /\ (dWorker'[w].pc = "exec" /\ dWorker[w].pc # "exec")
                   => dWorker[w].pc = "select"
            /\ (dWorker'[w].pc = "select" /\ dWorker[w].pc # "select")
                   => dWorker[w].pc = "none"
            /\ (dWorker[w].pc \in {"select", "exec"} /\ dWorker'[w].pc \notin {"select", "exec"})
                   => /\ dWorker'[w].pc = "dec"
                      /\ Len(dp'[SemOf(dSched[w].urgent)].buf)
                             = Len(dp[SemOf(dSched[w].urgent)].buf) - 1
                      /\ dp'[SemOf(~dSched[w].urgent)] = dp[SemOf(~dSched[w].urgent)]
                      /\ dp'.workerCount = dp.workerCount
            /\ (dWorker[w].pc = "dec" /\ dWorker'[w].pc # "dec")
                   => /\ dWorker'[w].pc = "exited"
                      /\ U32Val(dp'.workerCount) = U32Val(dp.workerCount) - 1
                      /\ dp'.prioritySem = dp.prioritySem
                      /\ dp'.normalSem = dp.normalSem

\* C31, the balance: each semaphore holds one token per worker of its class
\* that has not released yet, and the counter is the number of live workers;
\* so with no worker live and no Schedule call in progress the semaphores are
\* empty and the counter is 0.
C31_Balance ==
    dp # Nil =>
        /\ Len(dp.prioritySem.buf) = Cardinality(DynamicHolders(TRUE))
        /\ Len(dp.normalSem.buf) = Cardinality(DynamicHolders(FALSE))
        /\ (DynamicLiveWorkers = {} /\ ~DynamicScheduling /\ ~dp.prioritySem.closed) =>
               /\ dp.prioritySem.buf = <<>>
               /\ dp.normalSem.buf = <<>>
               /\ GetActiveWorkers = ToU32(0)

\* C31: a worker executes at most one task and on every exit path releases
\* one slot of its own semaphore and decrements the counter once.
C31_OneTaskOneRelease == [][C31_WorkerSteps]_vars /\ []C31_Balance

\* Three workers have exited, two of them after executing a task and one
\* without, and the semaphores, not yet closed, are empty and the counter 0.
C31_Witness ==
    /\ dp # Nil
    /\ \A w \in Tasks : dWorker[w].pc = "exited"
    /\ Cardinality({t \in Tasks : dExecuted[t] = 1}) = 2
    /\ ~dp.prioritySem.closed
    /\ dp.prioritySem.buf = <<>> /\ dp.normalSem.buf = <<>>
    /\ GetActiveWorkers = ToU32(0)

\* C32, no waiting for the other class: a Schedule call that has reached the
\* acquire of its semaphore goes on at once when its own class's semaphore,
\* still open, has a free slot, whatever the other semaphore holds.
C32_OwnSlotSuffices ==
    dp # Nil =>
        \A t \in Tasks :
            LET own == IF dSched[t].urgent THEN dp.prioritySem ELSE dp.normalSem
            IN  (dFault = NoFault /\ dSched[t].pc = "acquire"
                     /\ ~own.closed /\ Len(own.buf) < own.cap)
                    => ENABLED DynamicAcquire(t)

\* C32, own slots only: the acquire of a call puts one token into the
\* semaphore of the call's class and leaves the other semaphore alone.
C32_OwnSlotOnly ==
    dp # Nil =>
        \A t \in Tasks :
            (dSched[t].pc = "acquire" /\ dSched'[t].pc = "true") =>
                IF dSched[t].urgent
                THEN /\ Len(dp'.prioritySem.buf) = Len(dp.prioritySem.buf) + 1
                     /\ dp'.normalSem = dp.normalSem
                ELSE /\ Len(dp'.normalSem.buf) = Len(dp.normalSem.buf) + 1
                     /\ dp'.prioritySem = dp.prioritySem

\* C32: the two ceilings are independent.
C32_IndependentCeilings == []C32_OwnSlotSuffices /\ [][C32_OwnSlotOnly]_vars

\* On the pool with ceilings (1, 1) an urgent and a normal task are being
\* executed at the same moment, both semaphores are full and
\* GetActiveWorkers() is 2.
C32_Witness ==
    /\ dp # Nil
    /\ dp.maxPriorityWorkers = 1 /\ dp.maxNormalWorkers = 1
    /\ Cardinality(DynamicExecuting(TRUE)) = 1
    /\ Cardinality(DynamicExecuting(FALSE)) = 1
    /\ Len(dp.prioritySem.buf) = 1 /\ Len(dp.normalSem.buf) = 1
    /\ GetActiveWorkers = ToU32(2)

\* C33, the call: a Schedule call of the static pool made when a Stop call
\* has returned panics on its send and leaves the pool as it was.
C33_FaultsAfterStop ==
    (sp # Nil /\ StaticStopReturned) =>
        \A t \in Tasks :
            (sSched[t].pc = "idle" /\ sSched'[t].pc # "idle") =>
                /\ sSched'[t].pc = "panic"
                /\ sFault' = "Schedule: send on closed channel"
                /\ sp' = sp

\* C33, the task: the task of a call that panicked is in no queue and is
\* never executed.
C33_NeverExecuted ==
    sp # Nil =>
        \A t \in Tasks :
            sSched[t].pc = "panic" =>
                StaticQueued(t) = 0 /\ sExec[t] = "none" /\ sExecuted[t] = 0

\* C33: a Schedule call made after Stop has returned faults on the closed
\* queue; its task is not enqueued and never executed.
C33_ScheduleAfterStop == [][C33_FaultsAfterStop]_vars /\ []C33_NeverExecuted

\* On a started pool a Schedule call made after Stop had returned has
\* panicked, after an earlier task was executed.
C33_Witness ==
    /\ sp # Nil
    /\ sStarted
    /\ StaticStopReturned
    /\ \E t \in Tasks : sSched[t].pc = "panic"
    /\ \E t \in Tasks : sExecuted[t] = 1

\* C34: in both pools a task is, at any moment, in at most one place (in its
\* queue once, with one worker, or executed once), so that its Execute runs
\* at most one time and at most one worker dequeues it.
C34_AtMostOnce ==
    /\ dp # Nil =>
           \A t \in Tasks :
               /\ dExecuted[t] <= 1
               /\ DynamicQueued(t) + DynamicBeingExecuted(t) + dExecuted[t] <= 1
    /\ sp # Nil =>
           \A t \in Tasks :
               /\ sExecuted[t] <= 1
               /\ StaticQueued(t) + (IF sExec[t] = "none" THEN 0 ELSE 1) + sExecuted[t] <= 1

\* On the dynamic pool all three tasks have been executed, once each, and
\* Stop has returned.
C34_Witness ==
    /\ dp # Nil
    /\ DynamicStopReturned
    /\ \A t \in Tasks : dExecuted[t] = 1

\* C35: the value returned by GetActiveWorkers() never exceeds the sum of
\* the two ceilings, and the counter never wraps below zero (it always
\* equals the number of workers that have been counted and not yet
\* uncounted).
C35_Claim ==
    dp # Nil =>
        /\ U32Val(GetActiveWorkers) <= dp.maxPriorityWorkers + dp.maxNormalWorkers
        /\ U32Val(GetActiveWorkers) = Cardinality(DynamicLiveWorkers)

\* C36: no Schedule call ever sends on a task queue or on a semaphore that
\* Stop has already closed, so that no Schedule call faults.
C36_Claim ==
    dFault \notin {"Schedule: send on closed channel", "tryLaunch: send on closed channel"}

\* The workers of a class that are live and have not yet dequeued: they wait
\* in their select, holding a slot of the class's semaphore.
DynamicWaiting(urgent) ==
    {w \in Tasks : dWorker[w].pc = "select" /\ dSched[w].urgent = urgent}

\* C37: before Stop is invoked, in each class the queue holds at least as
\* many tasks as the class has live workers that have not yet dequeued, so
\* that no worker waits on an empty queue while holding a semaphore slot.
C37_TaskPerWaitingWorker ==
    (dp # Nil /\ ~DynamicStopInvoked) =>
        \A urgent \in BOOLEAN :
            Len(dp[QueueOf(urgent)].buf) >= Cardinality(DynamicWaiting(urgent))

\* Stop not invoked, two workers of one class wait in their select and the
\* class's queue holds exactly two tasks.
C37_Witness ==
    /\ dp # Nil
    /\ ~DynamicStopInvoked
    /\ \E urgent \in BOOLEAN :
           /\ Cardinality(DynamicWaiting(urgent)) = 2
           /\ Len(dp[QueueOf(urgent)].buf) = 2

\* C38: with Start, Pause and Resume the only methods called on the timer
\* (no Reset), the callback is invoked at most once; a Pause and a Resume
\* made after the timer has fired do not invoke it again.
C38_Claim ==
    OnlyCalled({"Start", "Pause", "Resume"}) => Len(cbLog) <= 1

\* C39: Reset discards the active time accumulated before it. With every
\* call made on a timer whose expiry was not yet due, a callback invoked
\* after a Reset comes only once a full duration of un-paused time has
\* elapsed since that Reset, never earlier, whatever Pause and Resume calls
\* follow the Reset.
C39_Claim ==
    (ct # Nil /\ tCalls.late = {}) =>
        \A k \in 1..Len(cbLog) :
            cbLog[k].resets >= 1 => cbLog[k].unpaused >= ct.duration

\* C40: a Write call never sends on the internal channel after Close has
\* closed it, and once Close has returned every Write call that had begun
\* before that and has returned either yielded io.ErrClosedPipe or has its
\* data in the underlying writer.
C40_Claim ==
    /\ awFault # "Write: send on closed channel"
    /\ \A w \in Writes : awWrite[w].pc # "panic"
    /\ WriterCloseReturned =>
           \A w \in Writes :
               awWrite[w].pc \in {"ok", "closed"} =>
                   awWrite[w].pc = "closed" \/ Count(awOut, w) = 1

====
